---- MODULE Spec2Model ----
(***************************************************************************)
(* A model of the keystroke analysis engine of src/analyze.py: the main    *)
(* pass of analyze() (sessions, digraph timing, error tracking), the typo  *)
(* reconstruction of detect_typo_patterns(), the windowed error rates of   *)
(* compute_fatigue_analysis() and the rollup of compute_stats().           *)
(*                                                                         *)
(* Representation.  Timestamps are floats (seconds) in the source; here a  *)
(* timestamp is a natural number of ticks of 1/10 s, so that 0.0 s is 0,   *)
(* 0.1 s is 1 and 2.0 s is 20.  Rates and percentages are exact fractions  *)
(* [num, den].  An Optional value (None or a value) is a sequence of       *)
(* length 0 or 1.  A Counter / dict is a sequence of entries in insertion  *)
(* order, which is the order Counter.most_common() breaks ties by.  A key  *)
(* is a string; its spelling (a sequence of characters) is what the        *)
(* string tests of the source read.                                        *)
(***************************************************************************)
EXTENDS Integers, Sequences, FiniteSets, TLC

\* ------------------------------------------------------------------ bounds

\* The longest event sequence drawn freely from the event alphabet.
MaxEvents == 3
\* The longest such sequence that the engine is run on twice.
MaxRerunEvents == 2
\* The longest press sequence drawn freely from the typo alphabet.
MaxTypoPresses == 7
\* The longest sequence of presses around a home-row modifier
MaxModPresses == 4
\* The longest free input of the chain scan
MaxChainPresses == 5
\* The longest free input of the modifier scan
MaxScanPresses == 4
\* The most events of a free input of the analyzers called one by one
MaxCallEvents == 2
\* The most lines of a file
MaxLines == 2

\* ------------------------------------------------------- program constants

\* analyze(): long_hold_threshold_ms = 200
LongHoldThresholdMs == 200
\* compute_stats(): "if len(times) >= 5" and the [:20] of the digraph lists
MinDigraphSamples == 5
DigraphTop == 20
\* compute_stats(): "if len(durations) >= 3", the [:15] of the hold stats
\* and the [-20:] of the long holds
MinHoldSamples == 3
HoldTop == 15
LongHoldTop == 20
\* datetime: the seconds of an hour and the hours of a day
\* analyze_homerow_mods(): "Stop looking if gap is too large (> 500ms)"
ModWindowMs == 500
\* compute_stats(): "tap_time_ms=200"
TapTimeMs == 200
\* compute_homerow_mod_stats(): "max(100, int(tap_time_ms * 0.75))"
MinTapTime == 100
\* compute_homerow_mod_stats(): "avg_failure_timing < 50"
FastFailureMs == 50
\* compute_homerow_mod_stats(): "failure_counts.most_common(10)"
ModFailureTop == 10
\* analyze_backspace_chains(): "context_len: int = 10"
ContextLen == 10
\* analyze_backspace_chains(): "press_events[j:j+5]"
ChainAfter == 5
\* analyze_backspace_chains(): "if bs_count >= 2"
MinChain == 2
\* analyze_backspace_chains(): most_common(20), most_common(30), most_common(15)
ImmediateTop == 20
SequencesTop == 30
RetypeTop == 15
SecondsPerHour == 3600
HoursPerDay == 24
\* analyze(): "if delta < 2.0" (seconds)
PauseSeconds == 2
\* detect_typo_patterns(): range(max(0, i - backspace_count - 5), i)
TypoLookBack == 5
\* detect_typo_patterns(): range(j, min(j + len(deleted) + 2, ...))
TypoLookAhead == 2
\* detect_typo_patterns(): typo_counts.most_common(20)
TypoTop == 20
\* compute_stats(): result.typo_sequences[:10]
StatsTypoTop == 10
\* compute_stats(): result.error_contexts.most_common(10)
ErrorContextTop == 10
\* compute_stats(): (total_chars / 5)
CharsPerWord == 5
\* compute_fatigue_analysis(): len(session_events) < 20
MinSessionEvents == 20
\* compute_fatigue_analysis(): len(windows) >= 2
MinWindows == 2
\* compute_fatigue_analysis(): change_pct > 50
FatiguePercent == 50
\* compute_fatigue_analysis(): window_minutes: int = 10
DefaultWindowMinutes == 10
\* compute_stats(): result.key_frequency.most_common(20)
TopKeys == 20

\* ------------------------------------------------------------------- units

\* n seconds, in ticks
Seconds(n) == n * 10
\* "delta * 1000": a latency in ticks, in milliseconds
ToMs(delta) == delta * 100
\* "window_minutes * 60" seconds, in ticks
MinutesToTicks(m) == Seconds(m * 60)

\* ---------------------------------------------------------------- optional

None == <<>>
Some(v) == <<v>>
\* Python truthiness of an Optional[float]: None and 0.0 are both false
TimeTruthy(t) == t # None /\ t[1] # 0
\* Python truthiness of an Optional[str]: None and "" are both false
KeyTruthy(k) == k # None /\ k[1] # ""

\* -------------------------------------------------------------------- keys

BACKSPACE == "KEY_BACKSPACE"
ShiftKeys == {"KEY_LEFTSHIFT", "KEY_RIGHTSHIFT"}

\* The characters of a key name
Spell(key) ==
  CASE key = "KEY_A" -> <<"K", "E", "Y", "_", "A">>
    [] key = "KEY_B" -> <<"K", "E", "Y", "_", "B">>
    [] key = "KEY_C" -> <<"K", "E", "Y", "_", "C">>
    [] key = "KEY_T" -> <<"K", "E", "Y", "_", "T">>
    [] key = "KEY_E" -> <<"K", "E", "Y", "_", "E">>
    [] key = "KEY_H" -> <<"K", "E", "Y", "_", "H">>
    [] key = "KEY_D" -> <<"K", "E", "Y", "_", "D">>
    [] key = "KEY_K" -> <<"K", "E", "Y", "_", "K">>
    [] key = "KEY_S" -> <<"K", "E", "Y", "_", "S">>
    [] key = "KEY_I" -> <<"K", "E", "Y", "_", "I">>
    [] key = "KEY_1" -> <<"K", "E", "Y", "_", "1">>
    [] key = "KEY_ESC" -> <<"K", "E", "Y", "_", "E", "S", "C">>
    [] key = "KEY_CAPSLOCK" ->
         <<"K", "E", "Y", "_", "C", "A", "P", "S", "L", "O", "C", "K">>
    [] key = "KEY_SPACE" -> <<"K", "E", "Y", "_", "S", "P", "A", "C", "E">>
    [] key = "KEY_TAB" -> <<"K", "E", "Y", "_", "T", "A", "B">>
    [] key = "KEY_BACKSPACE" ->
         <<"K", "E", "Y", "_", "B", "A", "C", "K", "S", "P", "A", "C", "E">>
    [] key = "KEY_LEFTSHIFT" ->
         <<"K", "E", "Y", "_", "L", "E", "F", "T", "S", "H", "I", "F", "T">>
    [] key = "KEY_RIGHTSHIFT" ->
         <<"K", "E", "Y", "_", "R", "I", "G", "H", "T", "S", "H", "I", "F", "T">>

Upper == {"A", "B", "C", "D", "E", "F", "G", "H", "I", "K", "L", "P", "R", "S", "T", "Y"}
Digits == {"0", "1", "2", "3", "4", "5", "6", "7", "8", "9"}

\* str.isalpha() of one character of a key name
IsAlpha(c) == c \in Upper
\* str.isdigit() of a string: non-empty and every character a digit
IsDigitString(s) == Len(s) > 0 /\ \A n \in 1..Len(s) : s[n] \in Digits
\* key.startswith("KEY_")
StartsWithKEY(s) ==
  Len(s) >= 4 /\ s[1] = "K" /\ s[2] = "E" /\ s[3] = "Y" /\ s[4] = "_"
\* str.lower() of one upper-case letter
Lower(c) ==
  CASE c = "A" -> "a" [] c = "B" -> "b" [] c = "C" -> "c" [] c = "D" -> "d"
    [] c = "E" -> "e"
    [] c = "F" -> "f" [] c = "G" -> "g" [] c = "H" -> "h" [] c = "I" -> "i"
    [] c = "K" -> "k" [] c = "L" -> "l" [] c = "P" -> "p" [] c = "R" -> "r"
    [] c = "S" -> "s" [] c = "T" -> "t" [] c = "Y" -> "y"

is_printable_key(key) ==
  LET s == Spell(key)
  IN \/ (StartsWithKEY(s) /\ Len(s) = 5 /\ IsAlpha(s[5]))
     \/ key \in {"KEY_SPACE", "KEY_TAB"}
     \/ (StartsWithKEY(s) /\ IsDigitString(SubSeq(s, 5, Len(s))))

\* key_to_char(): the character as Some(c), or None
key_to_char(key, shift_active) ==
  LET s == Spell(key)
  IN IF StartsWithKEY(s) /\ Len(s) = 5 /\ IsAlpha(s[5])
       THEN Some(IF shift_active THEN s[5] ELSE Lower(s[5]))
     ELSE IF key = "KEY_SPACE" THEN Some(" ")
     ELSE IF StartsWithKEY(s) /\ Len(s) = 5 /\ s[5] \in Digits THEN Some(s[5])
     ELSE None

\* A key that some producers deliver as a list of names, by its text, and
\* the names it lists
ListKeys == {"[KEY_LEFTSHIFT, KEY_A]", "[KEY_A, KEY_BACKSPACE]"}
IsList(k) == k \in ListKeys
ListItems(k) ==
  CASE k = "[KEY_LEFTSHIFT, KEY_A]" -> <<"KEY_LEFTSHIFT", "KEY_A">>
    [] k = "[KEY_A, KEY_BACKSPACE]" -> <<"KEY_A", "KEY_BACKSPACE">>

\* "k[-1] if isinstance(k, list) else k"
normalize_key(k) == IF IsList(k) THEN ListItems(k)[Len(ListItems(k))] ELSE k

\* The characters of key names and the order str compares them in
Alphabet ==
  <<"-", "0", "1", "2", "3", "4", "5", "6", "7", "8", "9", ">",
    "A", "B", "C", "D", "E", "F", "G", "H", "I", "K", "L", "P", "R", "S", "T",
    "Y", "_">>
Ord(c) == CHOOSE n \in 1..Len(Alphabet) : Alphabet[n] = c

\* a < b for two strings
RECURSIVE StrLess(_, _)
StrLess(a, b) ==
  IF b = <<>> THEN FALSE
  ELSE IF a = <<>> THEN TRUE
  ELSE IF a[1] # b[1] THEN Ord(a[1]) < Ord(b[1])
  ELSE StrLess(Tail(a), Tail(b))

\* key.replace("KEY_", "")
RECURSIVE RemoveKEY(_)
RemoveKEY(s) ==
  IF s = <<>> THEN <<>>
  ELSE IF StartsWithKEY(s) THEN RemoveKEY(SubSeq(s, 5, Len(s)))
  ELSE <<s[1]>> \o RemoveKEY(Tail(s))

\* ---------------------------------------------------------------- counters

\* The index of key k in Counter c (a sequence of [key, count]), or 0
CounterIndex(c, k) ==
  IF \E n \in 1..Len(c) : c[n].key = k
    THEN CHOOSE n \in 1..Len(c) : c[n].key = k
    ELSE 0

\* counter[k] += 1
CounterInc(c, k) ==
  LET n == CounterIndex(c, k)
  IN IF n = 0 THEN Append(c, [key |-> k, count |-> 1])
     ELSE [c EXCEPT ![n].count = @ + 1]

\* counter[k], 0 when absent
CounterGet(c, k) ==
  LET n == CounterIndex(c, k) IN IF n = 0 THEN 0 ELSE c[n].count

RECURSIVE CounterTotal(_)
CounterTotal(c) ==
  IF c = <<>> THEN 0 ELSE c[1].count + CounterTotal(Tail(c))

\* -------------------------------------------------------------------- dicts

\* The index of key k in dict d (a sequence of [key, val]), or 0
DictIndex(d, k) ==
  IF \E n \in 1..Len(d) : d[n].key = k
    THEN CHOOSE n \in 1..Len(d) : d[n].key = k
    ELSE 0

\* defaultdict(list): d[k].append(v)
DictAppend(d, k, v) ==
  LET n == DictIndex(d, k)
  IN IF n = 0 THEN Append(d, [key |-> k, val |-> <<v>>])
     ELSE [d EXCEPT ![n].val = Append(@, v)]

\* d[k], the empty list when absent
DictGet(d, k) ==
  LET n == DictIndex(d, k) IN IF n = 0 THEN <<>> ELSE d[n].val

\* ------------------------------------------------------------------ inputs

\* The keys, kinds and timestamp steps that free event sequences draw from:
\* a printable key and the delete key; presses and releases; steps of
\* 0 s, 0.1 s, 2.0 s and 61 s (the first step is the first timestamp)
EventKeys == {"KEY_A", BACKSPACE}
EventKinds == {"press", "release"}
EventSteps == {0, 1, Seconds(2), Seconds(61)}
\* session_gap: 0 s, 1 s and the default 60 s
SessionGaps == {0, Seconds(1), Seconds(60)}

RECURSIVE TimestampAt(_, _)
TimestampAt(shape, k) ==
  IF k = 0 THEN 0 ELSE TimestampAt(shape, k - 1) + shape[k].dt

\* The time-ordered event sequence of a sequence of (key, kind, step)
BuildEvents(shape) ==
  [k \in 1..Len(shape) |->
     [timestamp |-> TimestampAt(shape, k), key |-> shape[k].key,
      event |-> shape[k].event]]

\* n presses of one key, evenly spaced from t0
EvenRun(t0, n, step, key) ==
  [k \in 1..n |->
     [timestamp |-> t0 + (k - 1) * step, key |-> key, event |-> "press"]]

\* 50 presses 0.2 s apart (test_wpm_calculation), from 0.0 s and from 1.0 s,
\* of a printable and of a non-printable key
WpmInputs ==
  {EvenRun(t0, 50, 2, key) : t0 \in {0, Seconds(1)}, key \in {"KEY_A", "KEY_LEFTSHIFT"}}

\* 100 presses 6 s apart followed by one press after a pause of 60 s or 61 s
PauseInputs ==
  {EvenRun(t0, 100, Seconds(6), "KEY_A")
     \o <<[timestamp |-> t0 + 99 * Seconds(6) + Seconds(p), key |-> "KEY_B",
           event |-> "press"]>> :
   t0 \in {0, Seconds(1)}, p \in {60, 61}}

\* One press, or one on each of two consecutive days, at the first or the
\* last hour of a period of the day
EdgeHours == {0, 5, 6, 11, 12, 17, 18, 23}
HourPress(day, hour, key) ==
  [timestamp |-> Seconds((day * HoursPerDay + hour) * SecondsPerHour + 1),
   key |-> key, event |-> "press"]
HourInputs ==
  {<<HourPress(1, h, k)>> : h \in EdgeHours, k \in EventKeys}
    \cup {<<HourPress(1, h[1], k[1]), HourPress(2, h[2], k[2])>> :
            h \in EdgeHours \X EdgeHours, k \in EventKeys \X EventKeys}

\* Presses 0.1 s apart of the given keys
PressesOfKeys(keys) ==
  [k \in 1..Len(keys) |-> [timestamp |-> k, key |-> keys[k], event |-> "press"]]

\* Each press followed at once by the release of its key
WithReleases(presses) ==
  [k \in 1..(2 * Len(presses)) |->
     IF k % 2 = 1 THEN presses[(k + 1) \div 2]
     ELSE [presses[k \div 2] EXCEPT !.event = "release"]]

\* The keys of n two-letter words, each but the last deleted by two delete
\* presses and retyped as the next: n - 1 distinct typo pairs for n <= 36
ChainLetters == <<"KEY_A", "KEY_B", "KEY_C", "KEY_T", "KEY_E", "KEY_H">>
ChainWord(w) ==
  <<ChainLetters[((w - 1) \div Len(ChainLetters)) + 1],
    ChainLetters[((w - 1) % Len(ChainLetters)) + 1]>>
RECURSIVE ChainKeys(_)
ChainKeys(n) ==
  IF n = 1 THEN ChainWord(1)
  ELSE ChainKeys(n - 1) \o <<BACKSPACE, BACKSPACE>> \o ChainWord(n)

\* The keys of test_detects_simple_typo: "teh", three deletes, "the"
TehKeys ==
  <<"KEY_T", "KEY_E", "KEY_H", BACKSPACE, BACKSPACE, BACKSPACE,
    "KEY_T", "KEY_H", "KEY_E">>

TypoKeys == {"KEY_T", "KEY_E", BACKSPACE, "KEY_LEFTSHIFT"}

\* A block of one fatigue window of 10 minutes from t0: n presses evenly
\* spaced (n divides 6000), the last e of them delete presses
Block(t0, n, e) ==
  [k \in 1..n |->
     [timestamp |-> t0 + (k - 1) * (MinutesToTicks(10) \div n),
      key |-> IF k > n - e THEN BACKSPACE ELSE "KEY_A",
      event |-> "press"]]

\* (presses, delete presses) of a block: rates 0, 0.5, 0.02, 0.01, 0.02, 0.10
BlockShapes ==
  {<<5, 0>>, <<10, 0>>, <<10, 5>>, <<50, 1>>, <<100, 0>>, <<100, 1>>, <<100, 2>>,
   <<100, 10>>}

\* A block of 20 presses followed by one press, of a letter or of the delete
\* key, exactly 10 minutes after the first: the press at session.end
ClosingInputs ==
  {Block(t0, 20, 0)
     \o <<[timestamp |-> t0 + MinutesToTicks(10), key |-> k, event |-> "press"]>> :
   t0 \in {0, Seconds(1)}, k \in {"KEY_A", BACKSPACE}}

\* One block, or two or three consecutive blocks after each other
FatigueInputs ==
  ClosingInputs \cup
  {Block(t0, a[1], a[2]) : t0 \in {0, Seconds(1)}, a \in BlockShapes}
    \cup {Block(t0, a[1], a[2]) \o Block(t0 + MinutesToTicks(10), b[1], b[2]) :
            t0 \in {0, Seconds(1)}, a \in BlockShapes, b \in BlockShapes}
    \cup {Block(0, a[1], a[2]) \o Block(MinutesToTicks(10), 10, 0)
              \o Block(MinutesToTicks(20), b[1], b[2]) :
            a \in BlockShapes, b \in BlockShapes}

\* Sessions at the gates of the fatigue analysis: 20 presses in two windows;
\* 15 presses over more than 10 minutes; 21 presses over exactly 10 minutes, all but
\* the last in the first window; 100 presses in less than 10 minutes
GateInputs ==
  {Block(0, 10, 0) \o Block(MinutesToTicks(10), 10, 5),
   EvenRun(Seconds(1), 15, Seconds(50), "KEY_A"),
   EvenRun(Seconds(1), 21, Seconds(30), "KEY_A"),
   Block(0, 100, 10)}

\* window_minutes: 5 and the default 10
WindowMinutes == {5, DefaultWindowMinutes}
\* session_gap for the fatigue inputs: the default 60 s, and the test's 300 s
FatigueGaps == {Seconds(60), Seconds(300)}

\* --------------------------------------------------------------- the state

VARIABLES
  events,        \* the input of analyze()
  session_gap,   \* analyze()'s session_gap, in ticks
  pc,            \* where the engine is
  idx,           \* the number of events the loop of analyze() has consumed
  loc,           \* analyze()'s locals: prev_key, prev_time, session_*
  result,        \* the AnalysisResult
  stats,         \* compute_stats()'s output, as Some(dict) once computed
  run,           \* 1 in the first run of the engine, 2 in the second
  stats1,        \* the first run's output
  typo,          \* detect_typo_patterns()'s locals
  fat,           \* compute_fatigue_analysis()'s input and locals
  file,          \* the lines load_events() reads, and its date range
  out            \* the outcome of each call made so far, by the name called

vars ==
  <<events, session_gap, pc, idx, loc, result, stats, run, stats1, typo, fat,
    file, out>>

\* No file is read
NoFile == [lines |-> <<>>, start_date |-> None, end_date |-> None]

\* No call has been made
NoCalls ==
  [analyze |-> None, detect_typo_patterns |-> None, analyze_homerow_mods |-> None,
   analyze_backspace_chains |-> None, compute_fatigue_analysis |-> None,
   compute_stats |-> None, load_events |-> None,
   compute_homerow_mod_stats |-> None]

\* The outcome of a call: it returned v, or it raised the exception e
Returned(v) == [raised |-> "", value |-> Some(v)]
Raised(e) == [raised |-> e, value |-> None]

\* events is a time-ordered sequence of at most max events over that alphabet
FreeInput(max) ==
  \E n \in 0..max :
    \E s \in [1..n -> [key : EventKeys, event : EventKinds, dt : EventSteps]] :
      events = BuildEvents(s)

\* a presses of KEY_A 0.1 s apart, then b delete presses 0.2 s apart: a - 1
\* and b - 1 samples of two digraphs, 4 or 5 or 6 of each
SampleInputs ==
  {EvenRun(Seconds(1), a, 1, "KEY_A") \o EvenRun(Seconds(1) + a, b, 2, BACKSPACE) :
     a \in {5, 6, 7}, b \in {5, 6}}

\* Presses and releases by turns, 0.1 s apart, each release with the hold
\* duration of its key
HoldEvents(keys, hold_ms) ==
  [k \in 1..(2 * Len(keys)) |->
     IF k % 2 = 1
       THEN [timestamp |-> k, key |-> keys[(k + 1) \div 2], event |-> "press"]
       ELSE [timestamp |-> k, key |-> keys[k \div 2], event |-> "release",
             hold_duration_ms |-> hold_ms[keys[k \div 2]]]]

\* 2 or 3 or 4 holds of KEY_A and of the delete key, short or long
HoldInputs ==
  {HoldEvents([k \in 1..(a + b) |-> IF k <= a THEN "KEY_A" ELSE BACKSPACE],
              [key \in EventKeys |-> IF key = "KEY_A" THEN ha ELSE hb]) :
     a \in {2, 3, 4}, b \in {0, 2, 3}, ha \in {50, 250}, hb \in {50, 200}}

\* Chains of 3, 11, 12, 21 and 22 words: 2, 10, 11, 20 and 21 typo pairs
ChainInputs == {PressesOfKeys(ChainKeys(n)) : n \in {3, 11, 12, 21, 22}}

\* events is an input of the engine, of its first of two runs
\* Up to MaxModPresses presses of a shift home-row key, one of its targets
\* and the delete key, from 1.0 s on, 0.1 s or 0.6 s apart
ModKeys == {"KEY_K", "KEY_T", BACKSPACE}
ModInput ==
  \E n \in 1..MaxModPresses :
    \E keys \in [1..n -> ModKeys] :
      \E step \in {1, 6} :
        events = [k \in 1..n |->
                    [timestamp |-> Seconds(1) + (k - 1) * step,
                     key |-> keys[k], event |-> "press"]]

Input ==
  \/ FreeInput(MaxEvents)
  \/ ModInput
  \/ events \in WpmInputs \cup PauseInputs \cup HourInputs \cup ChainInputs
  \/ events \in SampleInputs \cup HoldInputs \cup GateInputs
RerunInput == FreeInput(MaxRerunEvents) \/ events \in WpmInputs \cup PauseInputs

\* events is a press sequence of at most MaxTypoPresses typo keys, or the
\* test's, bare or with the releases in between
TypoInput ==
  \/ \E n \in 0..MaxTypoPresses :
       \E keys \in [1..n -> TypoKeys] : events = PressesOfKeys(keys)
  \/ events \in {PressesOfKeys(TehKeys), WithReleases(PressesOfKeys(TehKeys))}

\* AnalysisResult(): every field at its default
AnalysisResult ==
  [total_keystrokes |-> 0, total_press_events |-> 0, key_frequency |-> <<>>,
   digraph_times |-> <<>>, error_count |-> 0, error_contexts |-> <<>>,
   sessions |-> <<>>, first_event |-> 0, last_event |-> 0,
   typo_sequences |-> <<>>, raw_events |-> <<>>,
   hold_durations |-> <<>>, long_holds |-> <<>>,
   homerow_mod_timings |-> <<>>, homerow_mod_failures |-> <<>>,
   backspace_chains |-> None,
   hourly_stats |-> [h \in 0..23 |-> [presses |-> 0, errors |-> 0, chars |-> 0]]]

TypingSession(start, end, keystrokes, chars) ==
  [start |-> start, end |-> end, keystrokes |-> keystrokes, chars |-> chars]

\* analyze()'s locals before the loop
InitLocals ==
  [prev_key |-> None, prev_time |-> None, session_start |-> None,
   session_keystrokes |-> 0, session_chars |-> 0]

\* ------------------------------------------------- analyze(): the main pass

\* A variant that also splits at a pause of exactly session_gap
GapExceededOrEqual(prev_time, ts, gap) ==
  TimeTruthy(prev_time) /\ (ts - prev_time[1]) >= gap

\* "prev_time and (ts - prev_time) > session_gap"
GapExceeded(prev_time, ts, gap) ==
  TimeTruthy(prev_time) /\ (ts - prev_time[1]) > gap

\* "prev_key and prev_time" and "delta < 2.0"
DigraphSampled(prev_key, prev_time, ts) ==
  KeyTruthy(prev_key) /\ TimeTruthy(prev_time)
    /\ (ts - prev_time[1]) < Seconds(PauseSeconds)

\* The session the loop closes: it ends at the previous press
ClosedSession(l) ==
  TypingSession(l.session_start[1], l.prev_time[1], l.session_keystrokes,
                l.session_chars)

\* A variant that carries the previous key across a session boundary
ResetLocalsKeepKey(l, ts) ==
  [l EXCEPT !.session_start = Some(ts), !.session_keystrokes = 0,
            !.session_chars = 0, !.prev_time = None]

\* A variant that carries the previous press across a session boundary
ResetLocalsKeepPrevious(l, ts) ==
  [l EXCEPT !.session_start = Some(ts), !.session_keystrokes = 0,
            !.session_chars = 0]

\* The locals once a session is closed at a press at ts
ResetLocals(l, ts) ==
  [l EXCEPT !.session_start = Some(ts), !.session_keystrokes = 0,
            !.session_chars = 0, !.prev_key = None, !.prev_time = None]

\* "Track errors": the result after a press of key, with the locals l
TrackError(r, l, key) ==
  IF key = BACKSPACE
    THEN [r EXCEPT !.error_count = @ + 1,
                   !.error_contexts =
                     IF KeyTruthy(l.prev_key) THEN CounterInc(@, l.prev_key[1])
                     ELSE @]
    ELSE r

\* "Track digraph timing": the result after a press of key at ts
TrackDigraph(r, l, key, ts) ==
  IF DigraphSampled(l.prev_key, l.prev_time, ts)
    THEN [r EXCEPT !.digraph_times =
            DictAppend(@, <<l.prev_key[1], key>>, ToMs(ts - l.prev_time[1]))]
    ELSE r

\* "result.total_keystrokes += 1", for an event of any kind
CountEvent(r) == [r EXCEPT !.total_keystrokes = @ + 1]

\* A variant without the filter on the event kind
IsAnyEvent(event) == event.event \in {"press", "release"}

\* "if event["event"] != "press": continue": the events the rest of the body sees
IsPress(event) == event.event = "press"

\* "result.total_press_events += 1" and "result.key_frequency[key] += 1"
CountPress(r, key) ==
  [r EXCEPT !.total_press_events = @ + 1, !.key_frequency = CounterInc(@, key)]

\* "Track hold durations from release events": the result after an event
\* of key at ts
TrackHold(r, event, key, ts) ==
  IF event.event = "release" /\ "hold_duration_ms" \in DOMAIN event
    THEN LET hold_ms == event.hold_duration_ms
         IN [r EXCEPT
               !.hold_durations = DictAppend(@, key, hold_ms),
               !.long_holds = IF hold_ms >= LongHoldThresholdMs
                                THEN Append(@, <<key, hold_ms, ts>>)
                                ELSE @]
    ELSE r

\* "datetime.fromtimestamp(ts).hour", for a clock set to UTC
HourOf(ts) == (ts \div Seconds(SecondsPerHour)) % HoursPerDay

\* "Track hourly stats": the result after a press of key at ts
TrackHourly(r, key, ts) ==
  [r EXCEPT !.hourly_stats[HourOf(ts)] =
     [presses |-> @.presses + 1,
      errors |-> IF key = BACKSPACE THEN @.errors + 1 ELSE @.errors,
      chars |-> IF is_printable_key(key) THEN @.chars + 1 ELSE @.chars]]

\* "session_keystrokes += 1" and "session_chars += 1" for a printable key
CountInSession(l, key) ==
  [l EXCEPT !.session_keystrokes = @ + 1,
            !.session_chars = IF is_printable_key(key) THEN @ + 1 ELSE @]

\* "Handle case where key might be a list (evdev returns lists for some keys)"
MainKey(key) ==
  IF IsList(key)
    THEN IF ListItems(key) # <<>> THEN ListItems(key)[Len(ListItems(key))]
         ELSE "KEY_UNKNOWN"
    ELSE key

\* The body of "for event in events": st is [result, loc]
AnalyzeEvent(st, event, gap) ==
  LET ts == event.timestamp
      key == MainKey(event.key)
      r0 == TrackHold(CountEvent(st.result), event, key, ts)
  IN IF ~IsPress(event) THEN [st EXCEPT !.result = r0]
     ELSE
       LET r1 == TrackHourly(CountPress(r0, key), key, ts)
           l1 == IF st.loc.session_start = None
                   THEN [st.loc EXCEPT !.session_start = Some(ts)]
                   ELSE st.loc
           closes == GapExceeded(l1.prev_time, ts, gap)
           r2 == IF closes
                   THEN [r1 EXCEPT !.sessions = Append(@, ClosedSession(l1))]
                   ELSE r1
           l2 == IF closes THEN ResetLocals(l1, ts) ELSE l1
           l3 == CountInSession(l2, key)
           r3 == TrackError(r2, l3, key)
           r4 == TrackDigraph(r3, l3, key, ts)
           l4 == [l3 EXCEPT !.prev_key = Some(key), !.prev_time = Some(ts)]
       IN [result |-> r4, loc |-> l4]

\* "Close final session"
CloseFinal(r, l) ==
  IF l.session_start # None /\ l.prev_time # None
    THEN [r EXCEPT !.sessions = Append(@, ClosedSession(l))]
    ELSE r

\* The loop of analyze() over events lo..hi, in order.  The range is split
\* in halves to keep the evaluation shallow; the test on left is always
\* true and makes TLC evaluate the first half before the second.
RECURSIVE AnalyzeRange(_, _, _, _, _)
AnalyzeRange(st, evs, lo, hi, gap) ==
  IF lo > hi THEN st
  ELSE IF lo = hi THEN AnalyzeEvent(st, evs[lo], gap)
  ELSE LET mid == (lo + hi) \div 2
           left == AnalyzeRange(st, evs, lo, mid, gap)
       IN IF left.result.total_keystrokes >= 0
            THEN AnalyzeRange(left, evs, mid + 1, hi, gap)
            ELSE left

\* ------------------------------------------------- detect_typo_patterns()

\* "press_events = [e for e in events if e["event"] == "press"]"
PressEvents(evs) == SelectSeq(evs, LAMBDA e : e.event = "press")

\* "while j < len(press_events) and press_events[j]["key"] == "KEY_BACKSPACE"":
\* the first position from j on that holds no delete press
RECURSIVE RunEnd(_, _)
RunEnd(p, j) ==
  IF j <= Len(p) /\ p[j].key = BACKSPACE THEN RunEnd(p, j + 1) ELSE j

\* The two decoding loops: the characters of presses k..to, a shift key
\* upper-casing the next one; the forward loop stops at a delete press
RECURSIVE Decode(_, _, _, _, _)
Decode(p, k, to, shift_active, forward) ==
  IF k > to THEN <<>>
  ELSE IF forward /\ p[k].key = BACKSPACE THEN <<>>
  ELSE IF p[k].key \in ShiftKeys THEN Decode(p, k + 1, to, TRUE, forward)
  ELSE key_to_char(p[k].key, shift_active) \o Decode(p, k + 1, to, FALSE, forward)

Max(a, b) == IF a >= b THEN a ELSE b
Min(a, b) == IF a <= b THEN a ELSE b

\* s[-n:] for n >= 1
LastN(s, n) == SubSeq(s, Max(1, Len(s) - n + 1), Len(s))
\* s[:n]
FirstN(s, n) == SubSeq(s, 1, Min(n, Len(s)))

\* A variant that keeps every character decoded before the run
DeletedUntruncated(p, i, backspace_count) ==
  Decode(p, Max(1, i - backspace_count - TypoLookBack), i - 1, FALSE, FALSE)

\* "deleted": the last backspace_count characters decoded from the
\* backspace_count + 5 presses before the run that starts at i
Deleted(p, i, backspace_count) ==
  LastN(Decode(p, Max(1, i - backspace_count - TypoLookBack), i - 1, FALSE, FALSE),
        backspace_count)

\* "replacement": the first len(deleted) + 1 characters decoded from the
\* len(deleted) + 2 presses from j on, up to the next delete press
Replacement(p, j, deleted) ==
  FirstN(Decode(p, j, Min(j + Len(deleted) + TypoLookAhead - 1, Len(p)), FALSE, TRUE),
         Len(deleted) + 1)

\* key_to_char() of a list: "key.startswith" raises AttributeError, a list
\* having no such attribute
KeyToCharRaises(key) == IsList(key)

\* A decoding loop over the presses k..to hands a list to key_to_char():
\* no list is a shift key or the delete key, and the forward loop stops at
\* the first delete press
DecodeRaises(p, k, to, forward) ==
  \E m \in k..to :
    /\ KeyToCharRaises(p[m].key)
    /\ forward => \A q \in k..(m - 1) : p[q].key # BACKSPACE

\* The iteration of "while i < len(press_events)" at the head i of a run
\* of delete presses raises
IterationRaises(p, i) ==
  LET j == RunEnd(p, i)
      backspace_count == j - i
  IN IF DecodeRaises(p, Max(1, i - backspace_count - TypoLookBack), i - 1, FALSE)
       THEN TRUE
       ELSE DecodeRaises(p, j,
                         Min(j + Len(Deleted(p, i, backspace_count))
                               + TypoLookAhead - 1, Len(p)),
                         TRUE)

\* detect_typo_patterns(evs) raises: the loop reaches the head of every run
\* of delete presses, until an iteration raises
TypoRaises(evs) ==
  LET p == PressEvents(evs)
  IN \E i \in 1..Len(p) :
       /\ p[i].key = BACKSPACE
       /\ i = 1 \/ p[i - 1].key # BACKSPACE
       /\ IterationRaises(p, i)

\* A variant that tallies strings of one character as well
MeaningfulShort(deleted, replacement) ==
  Len(deleted) >= 1 /\ Len(replacement) >= 1 /\ deleted # replacement

\* "if len(deleted) >= 2 and len(replacement) >= 2 and deleted != replacement"
Meaningful(deleted, replacement) ==
  Len(deleted) >= 2 /\ Len(replacement) >= 2 /\ deleted # replacement

\* The body of "while i < len(press_events)": t is [i, typo_counts], i from 1
TypoIteration(p, t) ==
  IF p[t.i].key = BACKSPACE
    THEN LET j == RunEnd(p, t.i)
             deleted == Deleted(p, t.i, j - t.i)
             replacement == Replacement(p, j, deleted)
         IN [i |-> j,
             typo_counts |->
               IF Meaningful(deleted, replacement)
                 THEN CounterInc(t.typo_counts, <<deleted, replacement>>)
                 ELSE t.typo_counts]
    ELSE [t EXCEPT !.i = @ + 1]

\* n iterations of the loop, those after its exit leaving t alone (in
\* halves, the first evaluated before the second, as in AnalyzeRange)
RECURSIVE TypoTimes(_, _, _)
TypoTimes(p, t, n) ==
  IF n = 0 THEN t
  ELSE IF n = 1 THEN (IF t.i > Len(p) THEN t ELSE TypoIteration(p, t))
  ELSE LET half == TypoTimes(p, t, n \div 2)
       IN IF half.i > 0 THEN TypoTimes(p, half, n - (n \div 2)) ELSE half

\* The whole loop: i grows in every iteration, so there are at most
\* len(press_events) of them
TypoLoop(p, t) == TypoTimes(p, t, Len(p))

\* sorted(..., key=count, reverse=True): entry e put behind every entry of s
\* that counts at least as much
RECURSIVE InsertByCount(_, _)
InsertByCount(s, e) ==
  IF s = <<>> THEN <<e>>
  ELSE IF s[1].count >= e.count THEN <<s[1]>> \o InsertByCount(Tail(s), e)
  ELSE <<e>> \o s

RECURSIVE SortByCount(_, _)
SortByCount(done, rest) ==
  IF rest = <<>> THEN done
  ELSE SortByCount(InsertByCount(done, rest[1]), Tail(rest))

\* Counter.most_common(n)
MostCommon(c, n) == FirstN(SortByCount(<<>>, c), n)

\* "[(orig, repl, count) for (orig, repl), count in typo_counts.most_common(20)]"
TypoPatterns(typo_counts) ==
  LET top == MostCommon(typo_counts, TypoTop)
  IN [n \in 1..Len(top) |-> <<top[n].key[1], top[n].key[2], top[n].count>>]

detect_typo_patterns(evs) ==
  TypoPatterns(TypoLoop(PressEvents(evs), [i |-> 1, typo_counts |-> <<>>]).typo_counts)

\* --------------------------------------------------------------- fractions

Frac(n, d) == [num |-> n, den |-> d]
FracSub(a, b) == Frac(a.num * b.den - b.num * a.den, a.den * b.den)
FracDiv(a, b) == Frac(a.num * b.den, a.den * b.num)
FracTimes(a, n) == Frac(a.num * n, a.den)
\* a > n, for a fraction with a positive denominator
FracOver(a, n) == a.num > n * a.den
FracSame(a, b) == a.num * b.den = b.num * a.den

\* ------------------------------------------------ compute_fatigue_analysis()

\* "session_events": the presses with session.start <= timestamp <= session.end
SessionEvents(raw_events, session) ==
  SelectSeq(raw_events,
            LAMBDA e : session.start <= e.timestamp /\ e.timestamp <= session.end
                       /\ e.event = "press")

\* "window_events": window_start <= timestamp < window_end
WindowEvents(session_events, window_start, window_end) ==
  SelectSeq(session_events,
            LAMBDA e : window_start <= e.timestamp /\ e.timestamp < window_end)

\* The body of "while window_start < session.end": w is [window_start, windows]
WindowIteration(session_events, w, window_minutes) ==
  LET window_end == w.window_start + MinutesToTicks(window_minutes)
      window_events == WindowEvents(session_events, w.window_start, window_end)
      errors == Len(SelectSeq(window_events, LAMBDA e : e.key = BACKSPACE))
  IN [window_start |-> window_end,
      windows |->
        IF window_events # <<>>
          THEN Append(w.windows,
                      [error_rate |-> Frac(errors, Len(window_events)),
                       events |-> Len(window_events)])
          ELSE w.windows]

RECURSIVE WindowLoop(_, _, _, _)
WindowLoop(session_events, session, w, window_minutes) ==
  IF w.window_start < session.end
    THEN WindowLoop(session_events, session,
                    WindowIteration(session_events, w, window_minutes),
                    window_minutes)
    ELSE w

\* A variant that reports the change as a ratio, not as a percentage
ChangeRatio(first_rate, last_rate) ==
  IF first_rate.num > 0
    THEN FracDiv(FracSub(last_rate, first_rate), first_rate)
    ELSE Frac(0, 1)

\* "change_pct": 0 when the first rate is not positive
ChangePercent(first_rate, last_rate) ==
  IF first_rate.num > 0
    THEN FracTimes(FracDiv(FracSub(last_rate, first_rate), first_rate), 100)
    ELSE Frac(0, 1)

\* "fatigue_detected": change_pct > 50
FatigueDetected(change_pct) == FracOver(change_pct, FatiguePercent)

\* The entry appended for a session with its windows
FatigueEntry(session, windows) ==
  LET first_rate == windows[1].error_rate
      last_rate == windows[Len(windows)].error_rate
      change_pct == ChangePercent(first_rate, last_rate)
  IN [duration_minutes |-> Frac(session.end - session.start, MinutesToTicks(1)),
      windows |-> Len(windows),
      start_error_rate |-> first_rate,
      end_error_rate |-> last_rate,
      change_percent |-> change_pct,
      fatigue_detected |-> FatigueDetected(change_pct)]

\* "Skip short sessions"
TooShort(session, window_minutes) ==
  session.end - session.start < MinutesToTicks(window_minutes)

\* "Need enough data"
TooFew(session_events) == Len(session_events) < MinSessionEvents

\* What one session adds to fatigue_data: nothing, or one entry
SessionFatigue(raw_events, session, window_minutes) ==
  IF TooShort(session, window_minutes) THEN <<>>
  ELSE LET session_events == SessionEvents(raw_events, session)
       IN IF TooFew(session_events) THEN <<>>
          ELSE LET w == WindowLoop(session_events, session,
                                   [window_start |-> session.start, windows |-> <<>>],
                                   window_minutes)
               IN IF Len(w.windows) >= MinWindows
                    THEN <<FatigueEntry(session, w.windows)>>
                    ELSE <<>>

RECURSIVE FatigueFrom(_, _, _)
FatigueFrom(r, k, window_minutes) ==
  IF k > Len(r.sessions) THEN <<>>
  ELSE SessionFatigue(r.raw_events, r.sessions[k], window_minutes)
         \o FatigueFrom(r, k + 1, window_minutes)

compute_fatigue_analysis(r, window_minutes) == FatigueFrom(r, 1, window_minutes)

\* ------------------------------------------------ compute_time_of_day_stats()

\* A variant of the periods that leaves midnight's hour out of the night
PeriodHoursFromOne(period_name) ==
  CASE period_name = "morning" -> 6..11
    [] period_name = "afternoon" -> 12..17
    [] period_name = "evening" -> 18..23
    [] period_name = "night" -> 1..5

\* "periods": range(6, 12), range(12, 18), range(18, 24), range(0, 6)
PeriodNames == <<"morning", "afternoon", "evening", "night">>
PeriodHours(period_name) ==
  CASE period_name = "morning" -> 6..11
    [] period_name = "afternoon" -> 12..17
    [] period_name = "evening" -> 18..23
    [] period_name = "night" -> 0..5

\* "sum(result.hourly_stats[h][field] for h in hours)"
RECURSIVE SumHours(_, _, _)
SumHours(hourly_stats, hours, field) ==
  IF hours = {} THEN 0
  ELSE LET h == CHOOSE x \in hours : TRUE
       IN hourly_stats[h][field] + SumHours(hourly_stats, hours \ {h}, field)

\* The entries of period_stats for the periods from n on, in the order of
\* "periods": a period with no presses has none
RECURSIVE PeriodStatsFrom(_, _)
PeriodStatsFrom(r, n) ==
  IF n > Len(PeriodNames) THEN <<>>
  ELSE LET hours == PeriodHours(PeriodNames[n])
           presses == SumHours(r.hourly_stats, hours, "presses")
           errors == SumHours(r.hourly_stats, hours, "errors")
           chars == SumHours(r.hourly_stats, hours, "chars")
       IN (IF presses > 0
             THEN <<[key |-> PeriodNames[n],
                     val |-> [presses |-> presses, errors |-> errors,
                              chars |-> chars,
                              error_rate |-> Frac(errors, presses)]]>>
             ELSE <<>>)
          \o PeriodStatsFrom(r, n + 1)

compute_time_of_day_stats(r) == PeriodStatsFrom(r, 1)

\* ---------------------------------------------------- analyze_homerow_mods()

\* DEFAULT_HOMEROW_MODS: the modifier of a home-row key and the keys it is
\* meant to modify
HomerowMods ==
  {"KEY_D", "KEY_K", "KEY_S", "KEY_L", "KEY_A", "KEY_SEMICOLON", "KEY_F", "KEY_J"}
ModName(key) ==
  CASE key = "KEY_D" -> "lshift" [] key = "KEY_K" -> "rshift"
    [] key = "KEY_S" -> "lmeta" [] key = "KEY_L" -> "rmeta"
    [] key = "KEY_A" -> "lalt" [] key = "KEY_SEMICOLON" -> "ralt"
    [] key = "KEY_F" -> "lctrl" [] key = "KEY_J" -> "rctrl"
TargetKeys(key) ==
  CASE key = "KEY_D" ->
         {"KEY_H", "KEY_J", "KEY_K", "KEY_L", "KEY_SEMICOLON", "KEY_Y", "KEY_U",
          "KEY_I", "KEY_O", "KEY_P", "KEY_N", "KEY_M", "KEY_COMMA", "KEY_DOT",
          "KEY_SLASH"}
    [] key = "KEY_K" ->
         {"KEY_A", "KEY_S", "KEY_D", "KEY_F", "KEY_G", "KEY_Q", "KEY_W", "KEY_E",
          "KEY_R", "KEY_T", "KEY_Z", "KEY_X", "KEY_C", "KEY_V", "KEY_B"}
    [] OTHER -> {}

\* "presses": (timestamp, normalized key) of the press events
Presses(evs) ==
  LET press_events == SelectSeq(evs, LAMBDA e : e.event = "press")
  IN [n \in 1..Len(press_events) |->
        [timestamp |-> press_events[n].timestamp,
         key |-> normalize_key(press_events[n].key)]]

\* "Look ahead for backspace within next few keys": presses k..last
RECURSIVE BackspaceFound(_, _, _)
BackspaceFound(presses, k, last) ==
  IF k > last THEN FALSE
  ELSE IF presses[k].key = BACKSPACE THEN TRUE
  ELSE IF StartsWithKEY(Spell(presses[k].key)) /\ Len(Spell(presses[k].key)) = 5
    THEN FALSE
  ELSE BackspaceFound(presses, k + 1, last)

\* A variant that skips the key of the modifier press only
SkippedSame(key, key2) == key2 = key

\* "Skip if it's another mod key or same key"
Skipped(key, key2) == key2 \in HomerowMods \/ key2 = key

\* A variant that never stops for a large gap
TooLateNever(delta_ms) == FALSE

\* "Stop looking if gap is too large (> 500ms)"
TooLate(delta_ms) == delta_ms > ModWindowMs

\* "Look for next key press within a short window": the inner loop for the
\* modifier press i from press j on; st is [mod_timings, failures]
RECURSIVE ModLook(_, _, _, _)
ModLook(st, presses, i, j) ==
  IF j > Min(i + 5, Len(presses)) THEN st
  ELSE LET key == presses[i].key
           key2 == presses[j].key
           delta_ms == ToMs(presses[j].timestamp - presses[i].timestamp)
       IN IF TooLate(delta_ms) THEN st
          ELSE IF Skipped(key, key2)
            THEN ModLook(st, presses, i, j + 1)
          ELSE LET mod_key_name == RemoveKEY(Spell(key))
                   target_key_name == RemoveKEY(Spell(key2))
                   digraph == mod_key_name \o <<"-", ">">> \o target_key_name
                   failed ==
                     /\ ModName(key) \in {"lshift", "rshift"}
                     /\ key2 \in TargetKeys(key)
                     /\ BackspaceFound(presses, j + 1, Min(j + 3, Len(presses)))
               IN [mod_timings |-> DictAppend(st.mod_timings, digraph, delta_ms),
                   failures |->
                     IF failed
                       THEN Append(st.failures,
                                   [mod_key |-> mod_key_name,
                                    target_key |-> target_key_name,
                                    timing_ms |-> delta_ms,
                                    was_corrected |-> TRUE])
                       ELSE st.failures]

\* The body of "for i, (ts, key) in enumerate(presses)"
ModPress(st, presses, i) ==
  IF presses[i].key \in HomerowMods THEN ModLook(st, presses, i, i + 1) ELSE st

\* "for i, (ts, key) in enumerate(presses)" over the presses lo..hi, in
\* order; the range is split in halves to keep the evaluation shallow
RECURSIVE ModScan(_, _, _, _)
ModScan(st, presses, lo, hi) ==
  IF lo > hi THEN st
  ELSE IF lo = hi THEN ModPress(st, presses, lo)
  ELSE LET mid == (lo + hi) \div 2
           left == ModScan(st, presses, lo, mid)
       IN IF Len(left.failures) >= 0
            THEN ModScan(left, presses, mid + 1, hi)
            ELSE left

\* (mod_timings, failures)
analyze_homerow_mods(evs) ==
  ModScan([mod_timings |-> <<>>, failures |-> <<>>], Presses(evs), 1,
          Len(Presses(evs)))

\* ---------------------------------------------------------- compute_stats()

\* sorted(times)
RECURSIVE InsertSorted(_, _)
InsertSorted(s, x) ==
  IF s = <<>> THEN <<x>>
  ELSE IF s[1] <= x THEN <<s[1]>> \o InsertSorted(Tail(s), x)
  ELSE <<x>> \o s
RECURSIVE Sorted(_)
Sorted(times) ==
  IF times = <<>> THEN <<>> ELSE InsertSorted(Sorted(Tail(times)), times[1])

\* statistics.median(times) of a non-empty list: the middle value, or the
\* mean of the two middle values
Median(times) ==
  LET s == Sorted(times)
      n == Len(s)
  IN IF n % 2 = 1 THEN Frac(s[(n + 1) \div 2], 1)
     ELSE Frac(s[n \div 2] + s[(n \div 2) + 1], 2)

RECURSIVE SumSeq(_)
SumSeq(s) == IF s = <<>> THEN 0 ELSE s[1] + SumSeq(Tail(s))
RECURSIVE MaxSeq(_)
MaxSeq(s) == IF Len(s) = 1 THEN s[1] ELSE Max(s[1], MaxSeq(Tail(s)))

\* a <= b for fractions with positive denominators
FracLeq(a, b) == a.num * b.den <= b.num * a.den

\* A variant that needs one sample only
EnoughSamplesOne(times) == Len(times) >= 1

\* "if len(times) >= 5"
EnoughSamples(times) == Len(times) >= MinDigraphSamples

\* "digraph_medians": the median of every digraph with enough samples
RECURSIVE DigraphMedians(_)
DigraphMedians(digraph_times) ==
  IF digraph_times = <<>> THEN <<>>
  ELSE (IF EnoughSamples(digraph_times[1].val)
          THEN <<[key |-> digraph_times[1].key,
                  val |-> Median(digraph_times[1].val)]>>
          ELSE <<>>)
       \o DigraphMedians(Tail(digraph_times))

\* sorted(items, key=value): entry e put behind every entry of s whose value
\* is at most its own; with reverse=True, behind every entry whose value is
\* at least its own
RECURSIVE InsertByValue(_, _, _)
InsertByValue(s, e, reverse) ==
  IF s = <<>> THEN <<e>>
  ELSE IF (IF reverse THEN FracLeq(e.val, s[1].val) ELSE FracLeq(s[1].val, e.val))
    THEN <<s[1]>> \o InsertByValue(Tail(s), e, reverse)
  ELSE <<e>> \o s
RECURSIVE SortByValue(_, _, _)
SortByValue(done, rest, reverse) ==
  IF rest = <<>> THEN done
  ELSE SortByValue(InsertByValue(done, rest[1], reverse), Tail(rest), reverse)

\* "slow_digraphs" and "fast_digraphs"
SlowDigraphs(r) ==
  FirstN(SortByValue(<<>>, DigraphMedians(r.digraph_times), TRUE), DigraphTop)
FastDigraphs(r) ==
  FirstN(SortByValue(<<>>, DigraphMedians(r.digraph_times), FALSE), DigraphTop)

\* "hold_stats": avg, max and count of every key with enough hold samples
RECURSIVE HoldStats(_)
HoldStats(hold_durations) ==
  IF hold_durations = <<>> THEN <<>>
  ELSE (IF Len(hold_durations[1].val) >= MinHoldSamples
          THEN <<[key |-> hold_durations[1].key,
                  val |-> [avg |-> Frac(SumSeq(hold_durations[1].val),
                                        Len(hold_durations[1].val)),
                           max |-> MaxSeq(hold_durations[1].val),
                           count |-> Len(hold_durations[1].val)]]>>
          ELSE <<>>)
       \o HoldStats(Tail(hold_durations))

\* sorted(hold_stats.items(), key=max, reverse=True)
RECURSIVE InsertByMax(_, _)
InsertByMax(s, e) ==
  IF s = <<>> THEN <<e>>
  ELSE IF s[1].val.max >= e.val.max THEN <<s[1]>> \o InsertByMax(Tail(s), e)
  ELSE <<e>> \o s
RECURSIVE SortByMax(_, _)
SortByMax(done, rest) ==
  IF rest = <<>> THEN done
  ELSE SortByMax(InsertByMax(done, rest[1]), Tail(rest))

\* "hold_duration_stats": present only when hold durations were recorded
HoldDurationStats(r) ==
  IF r.hold_durations # <<>>
    THEN Some(FirstN(SortByMax(<<>>, HoldStats(r.hold_durations)), HoldTop))
    ELSE None

\* ------------------------------------------------ analyze_backspace_chains()

\* "press_events": the normalized keys of the press events
PressKeys(evs) ==
  LET press_events == SelectSeq(evs, LAMBDA e : e.event = "press")
  IN [n \in 1..Len(press_events) |-> normalize_key(press_events[n].key)]

\* "Count consecutive backspaces": the first position from j on that holds
\* no delete key
RECURSIVE ChainEnd(_, _)
ChainEnd(press_events, j) ==
  IF j <= Len(press_events) /\ press_events[j] = BACKSPACE
    THEN ChainEnd(press_events, j + 1)
    ELSE j

\* A variant that records a single delete press as a chain
IsChainOne(bs_count) == bs_count >= 1

\* "if bs_count >= 2": only chains of 2+
IsChain(bs_count) == bs_count >= MinChain

\* What the iteration of "while i < len(press_events)" at position i adds
\* to chains: the loop stops at i when i holds a delete key and i - 1 does
\* not, every run of delete keys being skipped in one iteration
ChainAt(press_events, i, context_len) ==
  IF press_events[i] = BACKSPACE /\ (i = 1 \/ press_events[i - 1] # BACKSPACE)
    THEN LET j == ChainEnd(press_events, i)
             bs_count == j - i
             before == SubSeq(press_events, Max(1, i - context_len), i - 1)
             after == IF j <= Len(press_events)
                        THEN SubSeq(press_events, j,
                                    Min(j + ChainAfter - 1, Len(press_events)))
                        ELSE <<>>
         IN IF IsChain(bs_count)
              THEN <<[before |-> before, bs_count |-> bs_count, after |-> after]>>
              ELSE <<>>
    ELSE <<>>

\* "while i < len(press_events)" over the positions lo..hi; the range is
\* split in halves to keep the evaluation shallow
RECURSIVE ChainScan(_, _, _, _)
ChainScan(press_events, lo, hi, context_len) ==
  IF lo > hi THEN <<>>
  ELSE IF lo = hi THEN ChainAt(press_events, lo, context_len)
  ELSE LET mid == (lo + hi) \div 2
       IN ChainScan(press_events, lo, mid, context_len)
            \o ChainScan(press_events, mid + 1, hi, context_len)

\* The names the root causes are recognised by
ShiftOrSpaceNames ==
  {<<"L", "E", "F", "T", "S", "H", "I", "F", "T">>,
   <<"R", "I", "G", "H", "T", "S", "H", "I", "F", "T">>,
   <<"S", "P", "A", "C", "E">>}
CapsLockName == <<"C", "A", "P", "S", "L", "O", "C", "K">>
SpaceName == <<"S", "P", "A", "C", "E">>

\* "Detect homerow mod misfires": the root cause of a chain after k1, k2,
\* as a list of at most one name
RootCause(k1, k2) ==
  IF k2 \in ShiftOrSpaceNames /\ Len(k1) = 1 THEN <<"homerow_mod_misfire">>
  ELSE IF k2 = CapsLockName THEN <<"capslock_escape">>
  ELSE IF k2 = SpaceName /\ Len(k1) = 1 THEN <<"word_deletion">>
  ELSE <<>>

RECURSIVE CounterIncAll(_, _)
CounterIncAll(c, keys) ==
  IF keys = <<>> THEN c ELSE CounterIncAll(CounterInc(c, keys[1]), Tail(keys))

\* The body of "for ctx in chains": p holds the five Counters
ChainPattern(p, ctx) ==
  LET n == Len(ctx.before)
      last == IF n >= 1 THEN <<RemoveKEY(Spell(ctx.before[n]))>> ELSE <<>>
      k1 == IF n >= 2 THEN RemoveKEY(Spell(ctx.before[n - 1])) ELSE <<>>
      k2 == IF n >= 2 THEN RemoveKEY(Spell(ctx.before[n])) ELSE <<>>
  IN [chain_lengths |-> CounterInc(p.chain_lengths, ctx.bs_count),
      immediate_before |-> CounterIncAll(p.immediate_before, last),
      sequences_before |->
        IF n >= 2 THEN CounterInc(p.sequences_before, k1 \o <<"-", ">">> \o k2)
        ELSE p.sequences_before,
      root_causes |->
        IF n >= 2 THEN CounterIncAll(p.root_causes, RootCause(k1, k2))
        ELSE p.root_causes,
      retype_after |->
        IF ctx.after # <<>>
          THEN CounterInc(p.retype_after, RemoveKEY(Spell(ctx.after[1])))
          ELSE p.retype_after]

RECURSIVE ChainPatterns(_, _)
ChainPatterns(p, chains) ==
  IF chains = <<>> THEN p
  ELSE ChainPatterns(ChainPattern(p, chains[1]), Tail(chains))

analyze_backspace_chains(evs, context_len) ==
  LET chains == ChainScan(PressKeys(evs), 1, Len(PressKeys(evs)), context_len)
      p == ChainPatterns([chain_lengths |-> <<>>, immediate_before |-> <<>>,
                          sequences_before |-> <<>>, root_causes |-> <<>>,
                          retype_after |-> <<>>], chains)
  IN [chains |-> chains,
      total_chains |-> Len(chains),
      immediate_before |-> MostCommon(p.immediate_before, ImmediateTop),
      sequences_before |-> MostCommon(p.sequences_before, SequencesTop),
      chain_lengths |-> p.chain_lengths,
      retype_after |-> MostCommon(p.retype_after, RetypeTop),
      root_causes |-> p.root_causes]

\* ------------------------------------------------ compute_homerow_mod_stats()

\* "sorted(mod_timings.items())": by the text of the digraph
RECURSIVE InsertByText(_, _)
InsertByText(s, e) ==
  IF s = <<>> THEN <<e>>
  ELSE IF StrLess(e.key, s[1].key) THEN <<e>> \o s
  ELSE <<s[1]>> \o InsertByText(Tail(s), e)
RECURSIVE SortByText(_, _)
SortByText(done, rest) ==
  IF rest = <<>> THEN done
  ELSE SortByText(InsertByText(done, rest[1]), Tail(rest))

RECURSIVE MinSeq(_)
MinSeq(s) == IF Len(s) = 1 THEN s[1] ELSE Min(s[1], MinSeq(Tail(s)))

\* statistics.mean(data)
Mean(data) == Frac(SumSeq(data), Len(data))

\* "(under_tap_time / count * 100) if count else 0"
UnderTapTimePct(under_tap_time, count) ==
  IF count # 0 THEN Frac(under_tap_time * 100, count) ELSE Frac(0, 1)

\* The entry of mod_sequences for one digraph with timings
ModSequence(digraph, timings, tap_time_ms) ==
  LET under_tap_time == Len(SelectSeq(timings, LAMBDA t : t < tap_time_ms))
  IN [digraph |-> digraph,
      count |-> Len(timings),
      avg_ms |-> Mean(timings),
      min_ms |-> MinSeq(timings),
      max_ms |-> MaxSeq(timings),
      under_tap_time |-> under_tap_time,
      under_tap_time_pct |-> UnderTapTimePct(under_tap_time, Len(timings))]

\* "for digraph, timings in sorted(mod_timings.items())": the entries, and
\* all_timings, an empty list of timings adding to neither
RECURSIVE ModSequences(_, _)
ModSequences(sorted_items, tap_time_ms) ==
  IF sorted_items = <<>> THEN [mod_sequences |-> <<>>, all_timings |-> <<>>]
  ELSE LET rest == ModSequences(Tail(sorted_items), tap_time_ms)
           timings == sorted_items[1].val
       IN IF timings = <<>> THEN rest
          ELSE [mod_sequences |->
                  <<ModSequence(sorted_items[1].key, timings, tap_time_ms)>>
                    \o rest.mod_sequences,
                all_timings |-> timings \o rest.all_timings]

\* "stats["mod_sequences"].sort(key=lambda x: -x["count"])", a stable sort
RECURSIVE InsertByUse(_, _)
InsertByUse(s, e) ==
  IF s = <<>> THEN <<e>>
  ELSE IF e.count > s[1].count THEN <<e>> \o s
  ELSE <<s[1]>> \o InsertByUse(Tail(s), e)
RECURSIVE SortByUse(_, _)
SortByUse(done, rest) ==
  IF rest = <<>> THEN done
  ELSE SortByUse(InsertByUse(done, rest[1]), Tail(rest))

\* failure_counts: a Counter of (mod_key, target_key)
RECURSIVE FailureCounts(_)
FailureCounts(failures) ==
  IF failures = <<>> THEN <<>>
  ELSE CounterInc(FailureCounts(SubSeq(failures, 1, Len(failures) - 1)),
                  <<failures[Len(failures)].mod_key,
                    failures[Len(failures)].target_key>>)

\* "(len(failures) / len(all_timings) * 100) if all_timings else 0"
FailureRatePct(failures, all_timings) ==
  IF all_timings # <<>> THEN Frac(Len(failures) * 100, Len(all_timings))
  ELSE Frac(0, 1)

\* stats["summary"] for a non-empty all_timings
ModSummary(all_timings, failures) ==
  LET sorted_timings == Sorted(all_timings)
      p95_index == (Len(sorted_timings) * 95) \div 100
  IN [total_mod_sequences |-> Len(all_timings),
      avg_timing_ms |-> Mean(all_timings),
      min_timing_ms |-> MinSeq(all_timings),
      max_timing_ms |-> MaxSeq(all_timings),
      median_timing_ms |-> sorted_timings[(Len(sorted_timings) \div 2) + 1],
      p95_timing_ms |-> IF p95_index < Len(sorted_timings)
                          THEN sorted_timings[p95_index + 1]
                          ELSE sorted_timings[Len(sorted_timings)],
      total_failures |-> Len(failures),
      failure_rate_pct |-> FailureRatePct(failures, all_timings)]

\* "suggested = max(100, int(tap_time_ms * 0.75))"
SuggestedTapTime(tap_time_ms) == Max(MinTapTime, (tap_time_ms * 3) \div 4)

\* A recommendation: its type and the tap-time its message names, if any
Recommendation(type, suggested) == [type |-> type, suggested |-> suggested]

\* The recommendations, in order, for a non-empty failures
Recommendations(failures, tap_time_ms) ==
  LET failure_timings == [n \in 1..Len(failures) |-> failures[n].timing_ms]
      avg_failure_timing ==
        IF failure_timings # <<>> THEN Mean(failure_timings) ELSE Frac(0, 1)
      below(n) == avg_failure_timing.num < n * avg_failure_timing.den
  IN (IF below(FastFailureMs)
        THEN <<Recommendation("switch_algorithm", None)>> ELSE <<>>)
       \o (IF Cardinality({failures[n].mod_key : n \in 1..Len(failures)}) = 1
             THEN <<Recommendation("bilateral", None)>> ELSE <<>>)
       \o (IF 2 * avg_failure_timing.num < tap_time_ms * avg_failure_timing.den
             THEN <<Recommendation("lower_tap_time",
                                   Some(SuggestedTapTime(tap_time_ms)))>>
             ELSE <<>>)

compute_homerow_mod_stats(mod_timings, failures, tap_time_ms) ==
  LET seqs == ModSequences(SortByText(<<>>, mod_timings), tap_time_ms)
  IN [tap_time_setting |-> tap_time_ms,
      mod_sequences |-> SortByUse(<<>>, seqs.mod_sequences),
      failures |-> MostCommon(FailureCounts(failures), ModFailureTop),
      summary |-> IF seqs.all_timings # <<>>
                    THEN Some(ModSummary(seqs.all_timings, failures))
                    ELSE None,
      recommendations |->
        IF seqs.all_timings # <<>>
          THEN Some(IF failures # <<>>
                      THEN Recommendations(failures, tap_time_ms) ELSE <<>>)
          ELSE None]

RECURSIVE SumChars(_)
SumChars(sessions) ==
  IF sessions = <<>> THEN 0 ELSE sessions[1].chars + SumChars(Tail(sessions))

\* The sessions' total duration, in ticks
RECURSIVE SumDuration(_)
SumDuration(sessions) ==
  IF sessions = <<>> THEN 0
  ELSE (sessions[1].end - sessions[1].start) + SumDuration(Tail(sessions))

\* A variant of the rate that has no guard on total_press_events
ErrorRateUnguarded(r) == Frac(r.error_count, r.total_press_events)

\* "error_count / total_press_events if total_press_events else 0"
ErrorRate(r) ==
  IF r.total_press_events # 0 THEN Frac(r.error_count, r.total_press_events)
  ELSE Frac(0, 1)

\* A variant in characters, not words, per minute
AverageCpm(sessions) ==
  IF SumDuration(sessions) > 0
    THEN FracDiv(Frac(SumChars(sessions), 1),
                 Frac(SumDuration(sessions), MinutesToTicks(1)))
    ELSE Frac(0, 1)

\* "(total_chars / 5) / total_time_min" when total_time_min > 0, else 0;
\* total_time_min is the total duration / 60 s
AverageWpm(sessions) ==
  IF SumDuration(sessions) > 0
    THEN FracDiv(Frac(SumChars(sessions), CharsPerWord),
                 Frac(SumDuration(sessions), MinutesToTicks(1)))
    ELSE Frac(0, 1)

\* A variant that reports the modifier rollup whatever the timings
HomerowModStatsAlways(r) ==
  Some(compute_homerow_mod_stats(r.homerow_mod_timings, r.homerow_mod_failures,
                                 TapTimeMs))

\* "if result.homerow_mod_timings": the entry, or None when it is left out
HomerowModStats(r) ==
  IF r.homerow_mod_timings # <<>>
    THEN Some(compute_homerow_mod_stats(r.homerow_mod_timings,
                                        r.homerow_mod_failures, TapTimeMs))
    ELSE None

\* "if result.backspace_chains": the entry, or None when it is left out
BackspaceChainStats(r) ==
  IF r.backspace_chains # None
    THEN Some([total_chains |-> r.backspace_chains[1].total_chains,
               immediate_before |-> r.backspace_chains[1].immediate_before,
               sequences_before |-> r.backspace_chains[1].sequences_before,
               chain_lengths |-> r.backspace_chains[1].chain_lengths,
               retype_after |-> r.backspace_chains[1].retype_after,
               root_causes |-> r.backspace_chains[1].root_causes])
    ELSE None

\* The modelled entries of the stats dict
compute_stats(r) ==
  [total_keystrokes |-> r.total_keystrokes,
   total_press_events |-> r.total_press_events,
   error_count |-> r.error_count,
   error_rate |-> ErrorRate(r),
   session_count |-> Len(r.sessions),
   top_keys |-> MostCommon(r.key_frequency, TopKeys),
   error_contexts |-> MostCommon(r.error_contexts, ErrorContextTop),
   total_chars |-> SumChars(r.sessions),
   total_typing_minutes |-> Frac(SumDuration(r.sessions), MinutesToTicks(1)),
   average_wpm |-> AverageWpm(r.sessions),
   slow_digraphs |-> SlowDigraphs(r),
   fast_digraphs |-> FastDigraphs(r),
   hold_duration_stats |-> HoldDurationStats(r),
   long_holds |-> LastN(r.long_holds, LongHoldTop),
   time_of_day |-> compute_time_of_day_stats(r),
   fatigue_analysis |-> compute_fatigue_analysis(r, DefaultWindowMinutes),
   typo_patterns |-> FirstN(r.typo_sequences, StatsTypoTop),
   homerow_mods |-> HomerowModStats(r),
   backspace_chains |-> BackspaceChainStats(r)]

\* The end of analyze(): "Detect typo patterns", "Analyze homerow mod
\* timings", "Analyze backspace chains"
FinishAnalysis(r, evs) ==
  LET mods == analyze_homerow_mods(evs)
  IN [r EXCEPT !.typo_sequences = detect_typo_patterns(evs),
               !.homerow_mod_timings = mods.mod_timings,
               !.homerow_mod_failures = mods.failures,
               !.backspace_chains = Some(analyze_backspace_chains(evs, ContextLen))]

\* ------------------------------------------------------ the engine, stepped

\* A variant whose mutable defaults are shared between the instances
SharedDefaultsResult(previous) ==
  [AnalysisResult EXCEPT !.key_frequency = previous.key_frequency,
                         !.digraph_times = previous.digraph_times,
                         !.error_contexts = previous.error_contexts,
                         !.sessions = previous.sessions]

\* "result = AnalysisResult()": every field is built anew by its
\* default_factory, whatever an earlier call left in its own result
NewResult(previous) == AnalysisResult

Idle == [phase |-> "idle"]

Init ==
  /\ Input
  /\ file = NoFile
  /\ out = NoCalls
  /\ session_gap \in SessionGaps
  /\ pc = "start"
  /\ idx = 0
  /\ loc = InitLocals
  /\ result = AnalysisResult
  /\ stats = None
  /\ run = 1
  /\ stats1 = None
  /\ typo = Idle
  /\ fat = Idle

\* analyze(), up to its loop: an empty input returns the default result
AnalyzeBegin ==
  /\ pc = "start"
  /\ result' = IF events = <<>> THEN NewResult(result)
               ELSE [NewResult(result) EXCEPT
                       !.first_event = events[1].timestamp,
                       !.last_event = events[Len(events)].timestamp,
                       !.raw_events = events]
  /\ loc' = InitLocals
  /\ idx' = 0
  /\ pc' = IF events = <<>> THEN "analyzed" ELSE "loop"
  /\ UNCHANGED <<file, out, events, session_gap, stats, run, stats1, typo, fat>>

\* One iteration of "for event in events"
AnalyzeStep ==
  /\ pc = "loop"
  /\ idx < Len(events)
  /\ LET st == AnalyzeEvent([result |-> result, loc |-> loc], events[idx + 1],
                            session_gap)
     IN /\ result' = st.result
        /\ loc' = st.loc
  /\ idx' = idx + 1
  /\ UNCHANGED <<file, out, events, session_gap, pc, stats, run, stats1, typo, fat>>

\* analyze(), after its loop: the final session, the typo patterns
AnalyzeFinish ==
  /\ pc = "loop"
  /\ idx = Len(events)
  /\ result' = IF TypoRaises(events) THEN result
               ELSE FinishAnalysis(CloseFinal(result, loc), events)
  /\ pc' = IF TypoRaises(events) THEN "raised" ELSE "analyzed"
  /\ UNCHANGED <<file, out, events, session_gap, idx, loc, stats, run, stats1, typo, fat>>

\* compute_stats(result)
ComputeStats ==
  /\ pc = "analyzed"
  /\ stats' = Some(compute_stats(result))
  /\ stats1' = IF run = 1 THEN stats' ELSE stats1
  /\ pc' = "reported"
  /\ UNCHANGED <<file, out, events, session_gap, idx, loc, result, run, typo, fat>>

Next == AnalyzeBegin \/ AnalyzeStep \/ AnalyzeFinish \/ ComputeStats

Spec == Init /\ [][Next]_vars

\* The engine run again on the same input
SecondRun ==
  /\ pc = "reported"
  /\ run = 1
  /\ run' = 2
  /\ pc' = "start"
  /\ stats' = None
  /\ UNCHANGED <<file, out, events, session_gap, idx, loc, result, stats1, typo, fat>>

InitTwice ==
  /\ RerunInput
  /\ file = NoFile
  /\ out = NoCalls
  /\ session_gap \in SessionGaps
  /\ pc = "start"
  /\ idx = 0
  /\ loc = InitLocals
  /\ result = AnalysisResult
  /\ stats = None
  /\ run = 1
  /\ stats1 = None
  /\ typo = Idle
  /\ fat = Idle

NextTwice == Next \/ SecondRun

SpecTwice == InitTwice /\ [][NextTwice]_vars

\* analyze() as a whole
analyze(evs, gap) ==
  IF evs = <<>> THEN AnalysisResult
  ELSE LET st == AnalyzeRange(
                   [result |-> [AnalysisResult EXCEPT
                                  !.first_event = evs[1].timestamp,
                                  !.last_event = evs[Len(evs)].timestamp,
                                  !.raw_events = evs],
                    loc |-> InitLocals],
                   evs, 1, Len(evs), gap)
       IN FinishAnalysis(CloseFinal(st.result, st.loc), evs)

\* ------------------------------------------------- the analyzers, called

\* The keys, kinds and timestamps of the events the analyzers are called
\* with, in any order of time: scalar keys and keys that arrive as lists
CallKeys == {"KEY_A", BACKSPACE} \cup ListKeys
CallTimes == {Seconds(1), Seconds(63)}

\* Presses of the keys, 0.1 s apart from 1.0 s
Typed(keys) ==
  [k \in 1..Len(keys) |->
     [timestamp |-> Seconds(1) + (k - 1), key |-> keys[k], event |-> "press"]]

\* "ab", two deletes, "cd", a key or a delete arriving as a list
ListInputs ==
  {Typed(<<"KEY_A", "KEY_B", BACKSPACE, BACKSPACE, "KEY_C", "KEY_D">>),
   Typed(<<"KEY_A", "KEY_B", "[KEY_A, KEY_BACKSPACE]", "[KEY_A, KEY_BACKSPACE]",
           "KEY_C", "KEY_D">>),
   Typed(<<"KEY_A", "KEY_B", "[KEY_A, KEY_BACKSPACE]", BACKSPACE,
           "KEY_C", "KEY_D">>),
   Typed(<<"[KEY_LEFTSHIFT, KEY_A]", "KEY_B", BACKSPACE, BACKSPACE,
           "KEY_C", "KEY_D">>),
   Typed(<<"KEY_A", "KEY_B", BACKSPACE, BACKSPACE,
           "KEY_C", "[KEY_LEFTSHIFT, KEY_A]">>),
   Typed(<<"KEY_K", "KEY_T", "[KEY_A, KEY_BACKSPACE]", "[KEY_A, KEY_BACKSPACE]">>)}

\* Two fatigue windows of 10 presses, the last 5 of the second window
\* delete presses, scalar or arriving as lists
ListBlock(t0, n, e) ==
  [k \in 1..n |->
     [timestamp |-> t0 + (k - 1) * (MinutesToTicks(10) \div n),
      key |-> IF k > n - e THEN "[KEY_A, KEY_BACKSPACE]" ELSE "KEY_A",
      event |-> "press"]]
ListFatigueInputs ==
  {Block(Seconds(1), 10, 0) \o Block(Seconds(1) + MinutesToTicks(10), 10, 5),
   Block(Seconds(1), 10, 0) \o ListBlock(Seconds(1) + MinutesToTicks(10), 10, 5),
   ListBlock(Seconds(1), 10, 5) \o ListBlock(Seconds(1) + MinutesToTicks(10), 10, 5)}

CallInput ==
  \/ \E n \in 0..MaxCallEvents :
       \E s \in [1..n -> [timestamp : CallTimes, key : CallKeys,
                          event : EventKinds]] :
         events = s
  \/ events \in ListInputs \cup ListFatigueInputs

\* The loop of analyze() reads event["timestamp"], event["key"] and
\* event["event"] of every event: a missing one raises KeyError
MissingField(event) == ~({"timestamp", "key", "event"} \subseteq DOMAIN event)

\* What a call of each analyzer comes to
AnalyzeOutcome(evs, gap) ==
  IF evs # <<>> /\ (\E k \in 1..Len(evs) : MissingField(evs[k]))
    THEN Raised("KeyError")
  ELSE IF evs # <<>> /\ TypoRaises(evs) THEN Raised("AttributeError")
  ELSE Returned(analyze(evs, gap))
TypoOutcome(evs) ==
  IF TypoRaises(evs) THEN Raised("AttributeError")
  ELSE Returned(detect_typo_patterns(evs))
HomerowOutcome(evs) == Returned(analyze_homerow_mods(evs))
ChainsOutcome(evs) == Returned(analyze_backspace_chains(evs, ContextLen))
FatigueOutcome(r) == Returned(compute_fatigue_analysis(r, DefaultWindowMinutes))
StatsOutcome(r) == Returned(compute_stats(r))

InitCalls ==
  /\ CallInput
  /\ file = NoFile
  /\ out = NoCalls
  /\ session_gap = Seconds(60)
  /\ pc = "calls"
  /\ idx = 0
  /\ loc = InitLocals
  /\ result = AnalysisResult
  /\ stats = None
  /\ run = 1
  /\ stats1 = None
  /\ typo = Idle
  /\ fat = Idle

Unchanged ==
  UNCHANGED <<file, events, session_gap, pc, idx, loc, result, stats, run,
              stats1, typo, fat>>

\* analyze(events)
CallAnalyze ==
  /\ pc = "calls"
  /\ out.analyze = None
  /\ out' = [out EXCEPT !.analyze = Some(AnalyzeOutcome(events, session_gap))]
  /\ Unchanged

\* detect_typo_patterns(events)
CallTypo ==
  /\ pc = "calls"
  /\ out.detect_typo_patterns = None
  /\ out' = [out EXCEPT !.detect_typo_patterns = Some(TypoOutcome(events))]
  /\ Unchanged

\* analyze_homerow_mods(events)
CallHomerow ==
  /\ pc = "calls"
  /\ out.analyze_homerow_mods = None
  /\ out' = [out EXCEPT !.analyze_homerow_mods = Some(HomerowOutcome(events))]
  /\ Unchanged

\* analyze_backspace_chains(events)
CallChains ==
  /\ pc = "calls"
  /\ out.analyze_backspace_chains = None
  /\ out' = [out EXCEPT !.analyze_backspace_chains = Some(ChainsOutcome(events))]
  /\ Unchanged

\* compute_fatigue_analysis(result), result as analyze(events) returned it
CallFatigue ==
  /\ pc = "calls"
  /\ out.analyze # None
  /\ out.analyze[1].raised = ""
  /\ out.compute_fatigue_analysis = None
  /\ out' = [out EXCEPT !.compute_fatigue_analysis =
                          Some(FatigueOutcome(out.analyze[1].value[1]))]
  /\ Unchanged

\* compute_stats(result), result as analyze(events) returned it
CallStats ==
  /\ pc = "calls"
  /\ out.analyze # None
  /\ out.analyze[1].raised = ""
  /\ out.compute_stats = None
  /\ out' = [out EXCEPT !.compute_stats =
                          Some(StatsOutcome(out.analyze[1].value[1]))]
  /\ Unchanged

NextCalls ==
  CallAnalyze \/ CallTypo \/ CallHomerow \/ CallChains \/ CallFatigue \/ CallStats

SpecCalls == InitCalls /\ [][NextCalls]_vars

\* ----------------------------------------- analyze_homerow_mods(), called

\* The keys of the modifier scan: the two shift modifiers, each a target of
\* the other; a modifier that is no shift; a letter KEY_D is meant to shift;
\* a digit, the space bar and the delete key
ScanKeys == {"KEY_D", "KEY_K", "KEY_S", "KEY_I", "KEY_1", "KEY_SPACE", BACKSPACE}
\* The time from a press to the next: 0.1 s or 0.3 s
ScanGaps == {1, 3}

RECURSIVE GapSum(_, _)
GapSum(gaps, k) == IF k <= 1 THEN 0 ELSE GapSum(gaps, k - 1) + gaps[k]

\* Up to MaxScanPresses presses of the scan keys from 1.0 s on
ScanInput ==
  \E n \in 1..MaxScanPresses :
    \E keys \in [1..n -> ScanKeys] :
      \E gaps \in [1..n -> ScanGaps] :
        events = [k \in 1..n |->
                    [timestamp |-> Seconds(1) + GapSum(gaps, k),
                     key |-> keys[k], event |-> "press"]]

\* Presses of the keys at one time
AtOnce(keys) ==
  [k \in 1..Len(keys) |->
     [timestamp |-> Seconds(1), key |-> keys[k], event |-> "press"]]
Fill(n, key) == [k \in 1..n |-> key]

\* A modifier, up to five other modifiers, a letter and a delete press; a
\* shift modifier, its target, up to three other keys and a delete press
LongScanInputs ==
  {AtOnce(<<t>> \o Fill(m, "KEY_S") \o <<"KEY_I", BACKSPACE>>) :
     t \in {"KEY_D", "KEY_K"}, m \in 0..5}
    \cup {AtOnce(<<"KEY_D", "KEY_I">> \o Fill(q, f) \o <<BACKSPACE>>) :
            q \in 0..3, f \in {"KEY_SPACE", "KEY_1", "KEY_S"}}

InitMods ==
  /\ (ScanInput \/ events \in LongScanInputs)
  /\ file = NoFile
  /\ out = NoCalls
  /\ session_gap = Seconds(60)
  /\ pc = "calls"
  /\ idx = 0
  /\ loc = InitLocals
  /\ result = AnalysisResult
  /\ stats = None
  /\ run = 1
  /\ stats1 = None
  /\ typo = Idle
  /\ fat = Idle

NextMods == CallHomerow

SpecMods == InitMods /\ [][NextMods]_vars

\* --------------------------------------- compute_homerow_mod_stats(), called

\* tap_time_ms: positive settings below, at and above 100 ms
TapTimes == {1, 80, 100, 101, 134, TapTimeMs, 300}

\* compute_homerow_mod_stats(mod_timings, failures, tap_time_ms) on what
\* analyze_homerow_mods(events) returned
CallModStats ==
  /\ pc = "calls"
  /\ out.analyze_homerow_mods # None
  /\ out.compute_homerow_mod_stats = None
  /\ \E tap_time_ms \in TapTimes :
       LET r == out.analyze_homerow_mods[1].value[1]
       IN out' = [out EXCEPT !.compute_homerow_mod_stats =
                    Some(Returned(compute_homerow_mod_stats(r.mod_timings, r.failures,
                                                            tap_time_ms)))]
  /\ Unchanged

NextTapTime == CallHomerow \/ CallModStats

SpecTapTime == InitMods /\ [][NextTapTime]_vars

\* ------------------------------------- analyze_backspace_chains(), called

\* The keys of the chain scan: a letter, the space bar, the caps-lock and
\* the escape key, and the delete key
ChainScanKeys == {"KEY_A", "KEY_SPACE", "KEY_CAPSLOCK", "KEY_ESC", BACKSPACE}

\* Up to MaxChainPresses presses of the chain keys, 0.1 s apart
ChainScanInput ==
  \E n \in 1..MaxChainPresses :
    \E keys \in [1..n -> ChainScanKeys] : events = Typed(keys)

\* A chain of two or three delete presses after 9 to 12 letters and before
\* 0 to 7 letters
LongChainInputs ==
  {Typed(Fill(b, "KEY_A") \o Fill(n, BACKSPACE) \o Fill(a, "KEY_A")) :
     b \in 9..12, n \in 2..3, a \in 0..7}

InitChains ==
  /\ (ChainScanInput \/ events \in LongChainInputs)
  /\ file = NoFile
  /\ out = NoCalls
  /\ session_gap = Seconds(60)
  /\ pc = "calls"
  /\ idx = 0
  /\ loc = InitLocals
  /\ result = AnalysisResult
  /\ stats = None
  /\ run = 1
  /\ stats1 = None
  /\ typo = Idle
  /\ fat = Idle

NextChains == CallChains \/ CallAnalyze

SpecChains == InitChains /\ [][NextChains]_vars

\* ------------------------------------------------------------ load_events()

\* The lines of a file: one of white space only, one that is no JSON, one
\* that is JSON but no object, and objects with any of the fields
\* timestamp (1.0 or 2.0), key and event
LineKeys == {"KEY_A", "KEY_B"}
LineTimes == {Seconds(1), Seconds(2)}
ObjectLines ==
  {[text |-> "object", value |-> v] :
     v \in [timestamp : LineTimes, key : LineKeys, event : {"press"}]
          \cup [timestamp : LineTimes, key : LineKeys]
          \cup [timestamp : LineTimes, event : {"press"}]
          \cup [timestamp : LineTimes]
          \cup [key : LineKeys, event : {"press"}]
          \cup [key : LineKeys]}
Lines ==
  {[text |-> "blank"], [text |-> "garbage"], [text |-> "number"]} \cup ObjectLines
\* start_date and end_date: none, or 1.5 s
DateBounds == {None, Some(Seconds(1) + 5)}

FileInput ==
  \E n \in 0..MaxLines :
    \E l \in [1..n -> Lines] :
      \E start_date \in DateBounds, end_date \in DateBounds :
        file = [lines |-> l, start_date |-> start_date, end_date |-> end_date]

\* What the body of "for line in f" does with a line: "skip" it, "keep"
\* its event, or "raise".  A blank line is skipped; json.loads raises
\* JSONDecodeError on a line that is no JSON and event["timestamp"] raises
\* KeyError on an object without the field, both caught; on JSON that is
\* no object event["timestamp"] raises TypeError, which is not caught
LineStep(line, start_date, end_date) ==
  IF line.text = "blank" THEN "skip"
  ELSE IF line.text = "garbage" THEN "skip"
  ELSE IF line.text = "number" THEN "raise"
  ELSE IF "timestamp" \notin DOMAIN line.value THEN "skip"
  ELSE IF start_date # None /\ line.value.timestamp < start_date[1] THEN "skip"
  ELSE IF end_date # None /\ line.value.timestamp > end_date[1] THEN "skip"
  ELSE "keep"

\* "events": the events of the lines kept, in file order
RECURSIVE Kept(_, _, _)
Kept(ls, start_date, end_date) ==
  IF ls = <<>> THEN <<>>
  ELSE (IF LineStep(ls[1], start_date, end_date) = "keep"
          THEN <<ls[1].value>> ELSE <<>>)
         \o Kept(Tail(ls), start_date, end_date)

\* "sorted(events, key=lambda e: e["timestamp"])": a stable sort, an event
\* put behind those of s that are not later than it
InsertByTime(s, e) ==
  LET before == SelectSeq(s, LAMBDA x : x.timestamp <= e.timestamp)
      after == SelectSeq(s, LAMBDA x : x.timestamp > e.timestamp)
  IN before \o <<e>> \o after
RECURSIVE SortedByTime(_)
SortedByTime(evs) ==
  IF evs = <<>> THEN <<>>
  ELSE InsertByTime(SortedByTime(SubSeq(evs, 1, Len(evs) - 1)), evs[Len(evs)])

load_events(f) ==
  IF \E n \in 1..Len(f.lines) :
       LineStep(f.lines[n], f.start_date, f.end_date) = "raise"
    THEN Raised("TypeError")
    ELSE Returned(SortedByTime(Kept(f.lines, f.start_date, f.end_date)))

InitLoad ==
  /\ FileInput
  /\ events = <<>>
  /\ out = NoCalls
  /\ session_gap = Seconds(60)
  /\ pc = "load"
  /\ idx = 0
  /\ loc = InitLocals
  /\ result = AnalysisResult
  /\ stats = None
  /\ run = 1
  /\ stats1 = None
  /\ typo = Idle
  /\ fat = Idle

\* events = load_events(path, start_date, end_date)
LoadEvents ==
  /\ pc = "load"
  /\ out' = [out EXCEPT !.load_events = Some(load_events(file))]
  /\ events' = IF load_events(file).raised = "" THEN load_events(file).value[1]
               ELSE events
  /\ pc' = IF load_events(file).raised = "" THEN "calls" ELSE "raised"
  /\ UNCHANGED <<file, session_gap, idx, loc, result, stats, run, stats1, typo, fat>>

NextLoad == LoadEvents \/ CallAnalyze

SpecLoad == InitLoad /\ [][NextLoad]_vars

\* ------------------------------------- detect_typo_patterns(), stepped

\* detect_typo_patterns(events) at the head of its loop
InitTypo ==
  /\ TypoInput
  /\ file = NoFile
  /\ out = NoCalls
  /\ session_gap = Seconds(60)
  /\ pc = "typo_loop"
  /\ idx = 0
  /\ loc = InitLocals
  /\ result = AnalysisResult
  /\ stats = None
  /\ run = 1
  /\ stats1 = None
  /\ typo = [press_events |-> PressEvents(events), i |-> 1, typo_counts |-> <<>>,
             patterns |-> <<>>]
  /\ fat = Idle

\* One iteration of "while i < len(press_events)"
TypoScan ==
  /\ pc = "typo_loop"
  /\ typo.i <= Len(typo.press_events)
  /\ LET t == TypoIteration(typo.press_events,
                            [i |-> typo.i, typo_counts |-> typo.typo_counts])
     IN typo' = [typo EXCEPT !.i = t.i, !.typo_counts = t.typo_counts]
  /\ UNCHANGED <<file, out, events, session_gap, pc, idx, loc, result, stats, run, stats1, fat>>

\* "Return top patterns"
TypoReturn ==
  /\ pc = "typo_loop"
  /\ typo.i > Len(typo.press_events)
  /\ typo' = [typo EXCEPT !.patterns = TypoPatterns(typo.typo_counts)]
  /\ pc' = "typo_returned"
  /\ UNCHANGED <<file, out, events, session_gap, idx, loc, result, stats, run, stats1, fat>>

NextTypo == TypoScan \/ TypoReturn

SpecTypo == InitTypo /\ [][NextTypo]_vars

\* --------------------------------- compute_fatigue_analysis(), stepped

\* compute_fatigue_analysis(analyze(events, session_gap), window_minutes)
\* at the head of "for session in result.sessions"
InitFatigue ==
  /\ events \in FatigueInputs
  /\ file = NoFile
  /\ out = NoCalls
  /\ session_gap \in FatigueGaps
  /\ pc = "fatigue_sessions"
  /\ idx = 0
  /\ loc = InitLocals
  /\ result = analyze(events, session_gap)
  /\ stats = None
  /\ run = 1
  /\ stats1 = None
  /\ typo = Idle
  /\ \E wm \in WindowMinutes :
       fat = [window_minutes |-> wm, k |-> 1, session_events |-> <<>>,
              w |-> [window_start |-> 0, windows |-> <<>>], fatigue_data |-> <<>>]

\* The next session: skipped when too short or with too few presses,
\* else split into windows
FatigueSession ==
  /\ pc = "fatigue_sessions"
  /\ fat.k <= Len(result.sessions)
  /\ LET session == result.sessions[fat.k]
         session_events == SessionEvents(result.raw_events, session)
     IN IF TooShort(session, fat.window_minutes)
          THEN /\ fat' = [fat EXCEPT !.k = @ + 1]
               /\ pc' = pc
        ELSE IF TooFew(session_events)
          THEN /\ fat' = [fat EXCEPT !.k = @ + 1, !.session_events = session_events]
               /\ pc' = pc
        ELSE /\ fat' = [fat EXCEPT !.session_events = session_events,
                                   !.w = [window_start |-> session.start,
                                          windows |-> <<>>]]
             /\ pc' = "fatigue_windows"
  /\ UNCHANGED <<file, out, events, session_gap, idx, loc, result, stats, run, stats1, typo>>

\* One iteration of "while window_start < session.end"
FatigueWindow ==
  /\ pc = "fatigue_windows"
  /\ fat.w.window_start < result.sessions[fat.k].end
  /\ fat' = [fat EXCEPT !.w = WindowIteration(fat.session_events, @, fat.window_minutes)]
  /\ UNCHANGED <<file, out, events, session_gap, pc, idx, loc, result, stats, run, stats1, typo>>

\* After the windows: the session's entry, if it has two windows
FatigueSessionEnd ==
  /\ pc = "fatigue_windows"
  /\ ~(fat.w.window_start < result.sessions[fat.k].end)
  /\ fat' = [fat EXCEPT
               !.k = @ + 1,
               !.fatigue_data =
                 IF Len(fat.w.windows) >= MinWindows
                   THEN Append(@, FatigueEntry(result.sessions[fat.k], fat.w.windows))
                   ELSE @]
  /\ pc' = "fatigue_sessions"
  /\ UNCHANGED <<file, out, events, session_gap, idx, loc, result, stats, run, stats1, typo>>

\* "return fatigue_data"
FatigueReturn ==
  /\ pc = "fatigue_sessions"
  /\ fat.k > Len(result.sessions)
  /\ pc' = "fatigue_returned"
  /\ UNCHANGED <<file, out, events, session_gap, idx, loc, result, stats, run, stats1, typo, fat>>

NextFatigue == FatigueSession \/ FatigueWindow \/ FatigueSessionEnd \/ FatigueReturn

SpecFatigue == InitFatigue /\ [][NextFatigue]_vars

\* window_minutes of any size: no window at all, 5 and the default 10
AnyWindowMinutes == {0} \cup WindowMinutes

\* compute_fatigue_analysis(analyze(events, session_gap), window_minutes)
\* for any window_minutes
InitWindows ==
  /\ events \in FatigueInputs
  /\ file = NoFile
  /\ out = NoCalls
  /\ session_gap \in FatigueGaps
  /\ pc = "fatigue_sessions"
  /\ idx = 0
  /\ loc = InitLocals
  /\ result = analyze(events, session_gap)
  /\ stats = None
  /\ run = 1
  /\ stats1 = None
  /\ typo = Idle
  /\ \E wm \in AnyWindowMinutes :
       fat = [window_minutes |-> wm, k |-> 1, session_events |-> <<>>,
              w |-> [window_start |-> 0, windows |-> <<>>], fatigue_data |-> <<>>]

\* The interpreter runs the function on for as long as it has a next step.
\* With window_minutes = 0 an iteration of the window loop leaves
\* window_start where it is: the loop goes on in one and the same state
SpecWindows == InitWindows /\ [][NextFatigue]_vars /\ WF_vars(NextFatigue)

\* ============================================================== the claims

\* The press events of the input, in order
PressesOf(evs) == SelectSeq(evs, LAMBDA e : e.event = "press")

\* analyze() has returned
Analyzed == pc \in {"analyzed", "reported"}

RECURSIVE SumKeystrokes(_)
SumKeystrokes(sessions) ==
  IF sessions = <<>> THEN 0
  ELSE sessions[1].keystrokes + SumKeystrokes(Tail(sessions))

\* The position, among the presses, of the first press counted in session s
FirstPressOf(sessions, s) == SumKeystrokes(SubSeq(sessions, 1, s - 1)) + 1
\* ... and of the last
LastPressOf(sessions, s) == SumKeystrokes(SubSeq(sessions, 1, s))

\* The session that counts the k-th press, 0 if none does
SessionOfPress(sessions, k) ==
  IF \E s \in 1..Len(sessions) :
       FirstPressOf(sessions, s) <= k /\ k <= LastPressOf(sessions, s)
    THEN CHOOSE s \in 1..Len(sessions) :
           FirstPressOf(sessions, s) <= k /\ k <= LastPressOf(sessions, s)
    ELSE 0

\* The loop of analyze() is about to process a press
AtPress == pc = "loop" /\ idx < Len(events) /\ events[idx + 1].event = "press"

\* The index in events of the last press before event k, 0 if there is none
PrevPressIndex(k) ==
  LET before == {j \in 1..(k - 1) : events[j].event = "press"}
  IN IF before = {} THEN 0 ELSE CHOOSE j \in before : \A m \in before : m <= j

C2_SessionsAreMaximalRuns ==
  Analyzed =>
    LET p == PressesOf(events)
    IN \A k \in 1..(Len(p) - 1) :
         LET apart == p[k + 1].timestamp - p[k].timestamp > session_gap
             here == SessionOfPress(result.sessions, k)
             there == SessionOfPress(result.sessions, k + 1)
         IN /\ apart => (there = here + 1)
            /\ ~apart => (there = here)

\* The number of consecutive press pairs more than session_gap apart
GapCount(p, gap) ==
  Cardinality({k \in 1..(Len(p) - 1) : p[k + 1].timestamp - p[k].timestamp > gap})

\* C3: each session's start and end are the timestamps of the first and last
\* press of its run, keystrokes is the number of presses of the run, chars the
\* number of printable ones (chars <= keystrokes, start <= end); every
\* gap-exceeding press closes exactly one session, whose keystroke count is
\* the number of presses before the gap; a single press yields one
\* zero-duration session.
C3_SessionAttributes ==
  Analyzed =>
    LET p == PressesOf(events)
        ss == result.sessions
    IN /\ \A s \in 1..Len(ss) :
            LET first == FirstPressOf(ss, s)
                last == LastPressOf(ss, s)
            IN /\ ss[s].keystrokes >= 1
               /\ last <= Len(p)
               /\ ss[s].start = p[first].timestamp
               /\ ss[s].end = p[last].timestamp
               /\ ss[s].chars =
                    Cardinality({k \in first..last : is_printable_key(p[k].key)})
               /\ ss[s].chars <= ss[s].keystrokes
               /\ ss[s].start <= ss[s].end
       /\ p # <<>> => Len(ss) = GapCount(p, session_gap) + 1
       /\ \A k \in 1..(Len(p) - 1) :
            p[k + 1].timestamp - p[k].timestamp > session_gap =>
              \E s \in 1..Len(ss) : LastPressOf(ss, s) = k
       /\ Len(p) = 1 => (Len(ss) = 1 /\ ss[1].start = ss[1].end)

\* C4: a press of B that follows a press of A in the same session with a
\* latency d, 0 < d < 2.0 s, appends exactly the sample d * 1000 ms to the
\* digraph A->B.
C4_DigraphSampleAppended ==
  [][(AtPress /\ PrevPressIndex(idx + 1) # 0) =>
       LET a == events[PrevPressIndex(idx + 1)]
           b == events[idx + 1]
           d == b.timestamp - a.timestamp
       IN (0 < d /\ d < Seconds(PauseSeconds)
           /\ Len(result'.sessions) = Len(result.sessions)) =>
            DictGet(result'.digraph_times, <<a.key, b.key>>) =
              Append(DictGet(result.digraph_times, <<a.key, b.key>>), ToMs(d))]_vars

\* C5 as stated: every delete press adds 1 to error_count and, when any
\* earlier press precedes it, adds 1 to the count of the preceding key.
C5_ErrorContextAnyPrecedingPress ==
  [][(AtPress /\ events[idx + 1].key = BACKSPACE) =>
       /\ result'.error_count = result.error_count + 1
       /\ PrevPressIndex(idx + 1) # 0 =>
            LET q == events[PrevPressIndex(idx + 1)].key
            IN CounterGet(result'.error_contexts, q) =
                 CounterGet(result.error_contexts, q) + 1]_vars

\* C5, amended: every delete press adds 1 to error_count; it adds 1 to the
\* count of the preceding key, and to no other, when an earlier press
\* precedes it in the same session (the press closes no session), and
\* leaves error_contexts alone otherwise.
C5_ErrorContextWithinSession ==
  [][(AtPress /\ events[idx + 1].key = BACKSPACE) =>
       /\ result'.error_count = result.error_count + 1
       /\ IF PrevPressIndex(idx + 1) # 0
             /\ Len(result'.sessions) = Len(result.sessions)
            THEN LET q == events[PrevPressIndex(idx + 1)].key
                 IN /\ CounterGet(result'.error_contexts, q) =
                         CounterGet(result.error_contexts, q) + 1
                    /\ CounterTotal(result'.error_contexts) =
                         CounterTotal(result.error_contexts) + 1
            ELSE result'.error_contexts = result.error_contexts]_vars

\* A delete press was counted against the key pressed before it, and another
\* one, opening a later session, against none
C5_Witness ==
  /\ Analyzed
  /\ CounterGet(result.error_contexts, "KEY_A") = 1
  /\ result.error_count = 2
  /\ CounterTotal(result.error_contexts) = 1
  /\ PressesOf(events)[1].key = "KEY_A"

\* C6: after analyze() total_keystrokes is the number of events of any kind,
\* total_press_events the number of press events, and the first is at least
\* the second.
C6_EventCounts ==
  Analyzed =>
    /\ result.total_keystrokes = Len(events)
    /\ result.total_press_events = Cardinality({k \in 1..Len(events) : events[k].event = "press"})
    /\ result.total_keystrokes >= result.total_press_events

\* An input with presses and other events was analyzed
C6_Witness ==
  Analyzed /\ result.total_press_events >= 1
    /\ result.total_keystrokes > result.total_press_events

\* C7: the engine run twice in succession on the same input and
\* configuration gives the same output, and no step changes the input.
C7_SecondRunSameOutput ==
  /\ []((run = 2 /\ pc = "reported") => stats = stats1)
  /\ [][events' = events]_vars

\* The second run has reported on an input with a session, an error context
\* and a digraph sample
C7_Witness ==
  /\ run = 2
  /\ pc = "reported"
  /\ stats1 # None
  /\ stats[1].session_count >= 1
  /\ stats[1].error_contexts # <<>>
  /\ result.digraph_times # <<>>

\* The letters of the typo inputs and the characters they type
LetterKeys == {"KEY_T", "KEY_E", "KEY_H"}
LetterOf(key) ==
  CASE key = "KEY_T" -> "t" [] key = "KEY_E" -> "e" [] key = "KEY_H" -> "h"
CapitalOf(key) ==
  CASE key = "KEY_T" -> "T" [] key = "KEY_E" -> "E" [] key = "KEY_H" -> "H"

\* Presses i..j-1 of p are a maximal run of delete presses
IsDeleteRun(p, i, j) ==
  /\ 1 <= i /\ i < j /\ j <= Len(p) + 1
  /\ \A m \in i..(j - 1) : p[m].key = BACKSPACE
  /\ i > 1 => p[i - 1].key # BACKSPACE
  /\ j <= Len(p) => p[j].key # BACKSPACE

\* C8: for a run of n >= 2 delete presses with n letter presses right before
\* it and n letter presses right after it, detect_typo_patterns() tallies a
\* pair (deleted, corrected), deleted being the n characters typed before the
\* run (the first a capital after a shift press) and corrected starting with
\* the n characters typed after it, whenever those differ; the test's keys
\* T,E,H,delete x3,T,H,E give exactly the pair ("teh", "the").
C8_TypoPairRecorded ==
  pc = "typo_returned" =>
    LET p == PressesOf(events)
    IN /\ \A i \in 1..Len(p) : \A n \in 2..Len(p) :
            (/\ IsDeleteRun(p, i, i + n)
             /\ i - n >= 1
             /\ i + 2 * n - 1 <= Len(p)
             /\ \A m \in (i - n)..(i - 1) : p[m].key \in LetterKeys
             /\ \A m \in (i + n)..(i + 2 * n - 1) : p[m].key \in LetterKeys) =>
              LET shifted == i - n - 1 >= 1 /\ p[i - n - 1].key \in ShiftKeys
                  deleted == [m \in 1..n |->
                                IF m = 1 /\ shifted THEN CapitalOf(p[i - n].key)
                                ELSE LetterOf(p[i - n + m - 1].key)]
                  typed == [m \in 1..n |-> LetterOf(p[i + n + m - 1].key)]
              IN deleted # typed =>
                   /\ \E e \in 1..Len(typo.typo_counts) :
                        LET pair == typo.typo_counts[e].key
                        IN /\ pair[1] = deleted
                           /\ Len(pair[2]) \in {n, n + 1}
                           /\ SubSeq(pair[2], 1, n) = typed
                           /\ pair[2] # deleted
                           /\ typo.typo_counts[e].count >= 1
                   /\ \E e \in 1..Len(typo.patterns) :
                        /\ typo.patterns[e][1] = deleted
                        /\ SubSeq(typo.patterns[e][2], 1, n) = typed
       /\ p = PressesOfKeys(TehKeys) =>
            typo.patterns = <<<<(<<"t", "e", "h">>), (<<"t", "h", "e">>), 1>>>>

\* The scan of the test's keys, releases in between, has returned its pair
C8_Witness ==
  /\ pc = "typo_returned"
  /\ events = WithReleases(PressesOfKeys(TehKeys))
  /\ Len(typo.patterns) = 1
  /\ typo.patterns[1][1] = <<"t", "e", "h">>
  /\ Len(typo.patterns[1][2]) >= 2
  /\ typo.patterns[1][2] # typo.patterns[1][1]

\* A fraction with a positive denominator, in lowest terms
RECURSIVE Gcd(_, _)
Gcd(a, b) == IF b = 0 THEN a ELSE Gcd(b, a % b)
Lowest(a) ==
  LET g == Gcd(IF a.num < 0 THEN -a.num ELSE a.num, a.den)
  IN [num |-> a.num \div g, den |-> a.den \div g]

\* C9: in every reported entry change_percent is (last - first) / first * 100
\* when the first window's rate is positive and 0 otherwise, and
\* fatigue_detected holds exactly when change_percent > 50; rates 0.01 then
\* 0.10 give 900 and true, a flat 0.02 gives false, a first rate of 0 never
\* flags fatigue.
C9_FatigueChange ==
  \A n \in 1..(IF fat = Idle THEN 0 ELSE Len(fat.fatigue_data)) :
    LET e == fat.fatigue_data[n]
        f == e.start_error_rate
        l == e.end_error_rate
        c == e.change_percent
    IN /\ f.den > 0 /\ l.den > 0 /\ c.den > 0
       /\ f.num > 0 =>
            Lowest(c) = Lowest([num |-> 100 * (l.num * f.den - f.num * l.den),
                                den |-> f.num * l.den])
       /\ f.num = 0 => (c.num = 0 /\ ~e.fatigue_detected)
       /\ e.fatigue_detected <=> (c.num > 50 * c.den)
       /\ (f.num * 100 = f.den /\ l.num * 10 = l.den) =>
            (c.num = 900 * c.den /\ e.fatigue_detected)
       /\ (f.num * 50 = f.den /\ l.num * 50 = l.den) =>
            (c.num = 0 /\ ~e.fatigue_detected)

\* A session with a first window at 0.01 and a last at 0.10 was reported
C9_Witness ==
  /\ pc = "fatigue_returned"
  /\ events = Block(0, 100, 1) \o Block(MinutesToTicks(10), 100, 10)
  /\ Len(fat.fatigue_data) = 1
  /\ fat.fatigue_data[1].start_error_rate = Frac(1, 100)
  /\ fat.fatigue_data[1].end_error_rate = Frac(10, 100)
  /\ fat.fatigue_data[1].fatigue_detected

\* The characters and the duration (in ticks) of all sessions
RECURSIVE TotalChars(_)
TotalChars(sessions) ==
  IF sessions = <<>> THEN 0 ELSE Head(sessions).chars + TotalChars(Tail(sessions))
RECURSIVE TotalTicks(_)
TotalTicks(sessions) ==
  IF sessions = <<>> THEN 0
  ELSE (Head(sessions).end - Head(sessions).start) + TotalTicks(Tail(sessions))

\* C10: average_wpm is (sum of session chars / 5) / (sum of session
\* durations in minutes) whenever that duration is positive; 50 presses of a
\* printable key over 10 s in one session give about 60.
C10_AverageWpm ==
  pc = "reported" =>
    LET chars == TotalChars(result.sessions)
        ticks == TotalTicks(result.sessions)
        wpm == stats[1].average_wpm
    IN /\ ticks > 0 =>
            /\ wpm.den > 0
            /\ Lowest(wpm) = Lowest([num |-> chars * 60 * Seconds(1),
                                      den |-> 5 * ticks])
       /\ (/\ events \in WpmInputs
           /\ is_printable_key(events[1].key)
           /\ Len(result.sessions) = 1) =>
            /\ wpm.den > 0
            /\ 55 * wpm.den < wpm.num
            /\ wpm.num < 65 * wpm.den

\* The 50 presses of a printable key, in one session, were reported on
C10_Witness ==
  /\ pc = "reported"
  /\ events = EvenRun(0, 50, 2, "KEY_A")
  /\ Len(result.sessions) = 1
  /\ result.sessions[1].chars = 50
  /\ stats[1].average_wpm.num > 60 * stats[1].average_wpm.den

\* The number of samples of all digraphs
RECURSIVE SampleCount(_)
SampleCount(digraph_times) ==
  IF digraph_times = <<>> THEN 0
  ELSE Len(digraph_times[1].val) + SampleCount(Tail(digraph_times))

\* C19: every digraph sample recorded by analyze() is strictly positive and
\* below 2000 ms; in particular a press with zero latency adds no sample.
C19_SamplesPositive ==
  \A d \in 1..Len(result.digraph_times) :
    \A n \in 1..Len(result.digraph_times[d].val) :
      /\ result.digraph_times[d].val[n] > 0
      /\ result.digraph_times[d].val[n] < ToMs(Seconds(PauseSeconds))

\* C20: a press at which analyze() closes a session adds no digraph sample,
\* whatever session_gap is, so that the sessions' presses bound the samples:
\* a session of k presses accounts for at most k - 1 of them.
C20_NoSampleAcrossSessions ==
  /\ [][(AtPress /\ Len(result'.sessions) > Len(result.sessions)) =>
          result'.digraph_times = result.digraph_times]_vars
  /\ [](Analyzed =>
          SampleCount(result.digraph_times) + Len(result.sessions)
            <= Max(Len(PressesOf(events)), 1))

\* With session_gap = 0 two presses at one time gave a sample and a third,
\* 0.1 s later, opened the next session and gave none
C20_Witness ==
  /\ Analyzed
  /\ session_gap = 0
  /\ Len(PressesOf(events)) = 3
  /\ Len(result.sessions) = 2
  /\ result.sessions[2].start - result.sessions[1].end = 1
  /\ SampleCount(result.digraph_times) = 1

\* The hour of the day of a timestamp
HourOfDay(ts) == (ts \div 36000) % 24

\* The presses of the input in the hours lo..hi that satisfy Test
InHours(lo, hi, Test(_)) ==
  Cardinality({k \in 1..Len(events) :
                 /\ events[k].event = "press"
                 /\ HourOfDay(events[k].timestamp) \in lo..hi
                 /\ Test(events[k].key)})

\* The counts a period of the hours lo..hi must report: an entry if it has
\* presses, none otherwise
PeriodReported(time_of_day, name, lo, hi) ==
  LET presses == InHours(lo, hi, LAMBDA key : TRUE)
      errors == InHours(lo, hi, LAMBDA key : key = "KEY_BACKSPACE")
      chars == InHours(lo, hi, LAMBDA key : is_printable_key(key))
      entries == {n \in 1..Len(time_of_day) : time_of_day[n].key = name}
  IN IF presses = 0 THEN entries = {}
     ELSE /\ Cardinality(entries) = 1
          /\ \A n \in entries :
               /\ time_of_day[n].val.presses = presses
               /\ time_of_day[n].val.errors = errors
               /\ time_of_day[n].val.chars = chars
               /\ time_of_day[n].val.error_rate = [num |-> errors, den |-> presses]

RECURSIVE SumPeriods(_, _)
SumPeriods(time_of_day, field) ==
  IF time_of_day = <<>> THEN 0
  ELSE time_of_day[1].val[field] + SumPeriods(Tail(time_of_day), field)

\* C16: the buckets morning 6-11, afternoon 12-17, evening 18-23 and night
\* 0-5 each report the presses, errors and chars of their hours and
\* error_rate = errors / presses, a bucket with no presses is omitted, and
\* over the reported buckets presses sum to total_press_events, errors to
\* error_count and chars to the total of session chars.
C16_TimeOfDayBuckets ==
  pc = "reported" =>
    LET tod == stats[1].time_of_day
    IN /\ PeriodReported(tod, "morning", 6, 11)
       /\ PeriodReported(tod, "afternoon", 12, 17)
       /\ PeriodReported(tod, "evening", 18, 23)
       /\ PeriodReported(tod, "night", 0, 5)
       /\ SumPeriods(tod, "presses") = result.total_press_events
       /\ SumPeriods(tod, "errors") = result.error_count
       /\ SumPeriods(tod, "chars") = TotalChars(result.sessions)

\* A press at midnight's hour and one at 23 h were reported in two buckets
C16_Witness ==
  /\ pc = "reported"
  /\ Len(events) = 2
  /\ HourOfDay(events[1].timestamp) = 0
  /\ HourOfDay(events[2].timestamp) = 23
  /\ events[2].key = "KEY_BACKSPACE"
  /\ Len(stats[1].time_of_day) = 2
  /\ stats[1].time_of_day[1].key = "evening"
  /\ stats[1].time_of_day[2].key = "night"

\* The number of distinct (deleted, corrected) pairs recorded for the input
DistinctPairs ==
  Len(TypoLoop(PressEvents(events), [i |-> 1, typo_counts |-> <<>>]).typo_counts)

\* C17: whenever more than 10 distinct typo pairs were recorded, the result
\* of compute_stats() lists min(20, number of distinct pairs) of them.
C17_TwentyTypoPatterns ==
  (pc = "reported" /\ DistinctPairs > 10) =>
    Len(stats[1].typo_patterns) = Min(20, DistinctPairs)

\* The hold samples the input holds for a key
HoldSamplesOf(key) ==
  Cardinality({k \in 1..Len(events) :
                 /\ events[k].event = "release"
                 /\ "hold_duration_ms" \in DOMAIN events[k]
                 /\ events[k].key = key})

\* The windows of 10 minutes of a session, counted from its start and
\* starting before its end, that hold a press of the input
NonEmptyWindows(s) ==
  LET width == 10 * 60 * 10
  IN Cardinality(
       {w \in 0..((s.end - s.start) \div width) :
          /\ s.start + w * width < s.end
          /\ \E k \in 1..Len(events) :
               /\ events[k].event = "press"
               /\ s.start <= events[k].timestamp
               /\ events[k].timestamp <= s.end
               /\ s.start + w * width <= events[k].timestamp
               /\ events[k].timestamp < s.start + (w + 1) * width})

\* A session passes the gates of the fatigue analysis
Eligible(s) ==
  /\ s.end - s.start >= 10 * 60 * 10
  /\ s.keystrokes >= 20
  /\ NonEmptyWindows(s) >= 2

\* C18: slow_digraphs and fast_digraphs hold the digraphs with >= 5 samples
\* and no other, hold_duration_stats the keys with >= 3 hold samples and no
\* other, and fatigue_analysis an entry for a session exactly when it lasts
\* >= window_minutes * 60 s, has >= 20 presses and >= 2 non-empty windows.
C18_InsufficientSupportExcluded ==
  pc = "reported" =>
    LET st == stats[1]
        supported == {d \in 1..Len(result.digraph_times) :
                        Len(result.digraph_times[d].val) >= 5}
        eligible == {i \in 1..Len(result.sessions) : Eligible(result.sessions[i])}
    IN /\ \A list \in {st.slow_digraphs, st.fast_digraphs} :
            /\ \A n \in 1..Len(list) :
                 \E d \in supported : result.digraph_times[d].key = list[n].key
            /\ Len(list) = Min(20, Cardinality(supported))
       /\ st.hold_duration_stats # None =>
            /\ \A n \in 1..Len(st.hold_duration_stats[1]) :
                 /\ HoldSamplesOf(st.hold_duration_stats[1][n].key) >= 3
                 /\ st.hold_duration_stats[1][n].val.count =
                      HoldSamplesOf(st.hold_duration_stats[1][n].key)
            /\ \A k \in 1..Len(events) :
                 HoldSamplesOf(events[k].key) >= 3 =>
                   \E n \in 1..Len(st.hold_duration_stats[1]) :
                     st.hold_duration_stats[1][n].key = events[k].key
       /\ Len(st.fatigue_analysis) = Cardinality(eligible)
       /\ \A i \in eligible :
            LET e == st.fatigue_analysis[Cardinality({j \in eligible : j <= i})]
            IN /\ e.windows = NonEmptyWindows(result.sessions[i])
               /\ e.duration_minutes.num =
                    result.sessions[i].end - result.sessions[i].start

\* A digraph with 5 samples was ranked and two with fewer were not
C18_Witness ==
  /\ pc = "reported"
  /\ Len(result.digraph_times) = 3
  /\ Len(result.digraph_times[1].val) = 4
  /\ Len(result.digraph_times[3].val) = 5
  /\ Len(stats[1].slow_digraphs) = 1
  /\ stats[1].slow_digraphs[1].key = result.digraph_times[3].key
  /\ stats[1].fast_digraphs = stats[1].slow_digraphs

\* The outcome of a division is defined: its divisor was not zero
Defined(f) == f.den # 0

\* The total duration of the sessions is zero
NoDuration == \A n \in 1..Len(result.sessions) :
                result.sessions[n].end = result.sessions[n].start

\* C12: no rollup divides by zero.  error_rate is defined, and 0 with no
\* presses; average_wpm is defined, and 0 when the sessions have no duration;
\* a fatigue entry's rates and change_percent are defined, and change_percent
\* is 0 when the first window's rate is 0; a time-of-day entry has presses
\* and a defined error_rate; the modifier rollup, when given, has a defined
\* share and mean for every digraph and a defined failure rate.
C12_NoDivisionByZero ==
  pc = "reported" =>
    LET st == stats[1]
    IN /\ Defined(st.error_rate)
       /\ result.total_press_events = 0 => st.error_rate.num = 0
       /\ Defined(st.average_wpm)
       /\ NoDuration => st.average_wpm.num = 0
       /\ \A n \in 1..Len(st.fatigue_analysis) :
            LET e == st.fatigue_analysis[n]
            IN /\ Defined(e.start_error_rate) /\ Defined(e.end_error_rate)
               /\ Defined(e.change_percent)
               /\ e.start_error_rate.num = 0 => e.change_percent.num = 0
       /\ \A n \in 1..Len(st.time_of_day) :
            /\ st.time_of_day[n].val.presses > 0
            /\ Defined(st.time_of_day[n].val.error_rate)
       /\ st.hold_duration_stats # None =>
            \A n \in 1..Len(st.hold_duration_stats[1]) :
              Defined(st.hold_duration_stats[1][n].val.avg)
       /\ st.homerow_mods # None =>
            LET m == st.homerow_mods[1]
            IN /\ \A n \in 1..Len(m.mod_sequences) :
                    /\ m.mod_sequences[n].count > 0
                    /\ Defined(m.mod_sequences[n].avg_ms)
                    /\ Defined(m.mod_sequences[n].under_tap_time_pct)
               /\ m.summary # None =>
                    /\ Defined(m.summary[1].avg_timing_ms)
                    /\ Defined(m.summary[1].failure_rate_pct)

\* A report for releases only: no press, no session, and error_rate 0
C12_Witness ==
  /\ pc = "reported"
  /\ events # <<>>
  /\ result.total_press_events = 0
  /\ stats[1].error_rate = Frac(0, 1)
  /\ stats[1].average_wpm = Frac(0, 1)
  /\ stats[1].time_of_day = <<>>

\* Every analyzer has been called
AllCalled ==
  /\ out.analyze # None /\ out.detect_typo_patterns # None
  /\ out.analyze_homerow_mods # None /\ out.analyze_backspace_chains # None
  /\ out.compute_fatigue_analysis # None /\ out.compute_stats # None

\* The call, once made, returned v
Gave(call, v) == call # None => call[1] = [raised |-> "", value |-> <<v>>]

\* C11: for an empty event sequence analyze(), detect_typo_patterns(),
\* analyze_homerow_mods(), analyze_backspace_chains(),
\* compute_fatigue_analysis() and compute_stats() each return their
\* zero-value result (zero counts, no sessions, empty lists); none fails.
C11_EmptyInputZeroValues ==
  events = <<>> =>
    /\ out.analyze # None =>
         /\ out.analyze[1].raised = ""
         /\ LET r == out.analyze[1].value[1]
            IN /\ r.total_keystrokes = 0 /\ r.total_press_events = 0
               /\ r.error_count = 0 /\ r.sessions = <<>>
               /\ r.key_frequency = <<>> /\ r.digraph_times = <<>>
               /\ r.error_contexts = <<>> /\ r.typo_sequences = <<>>
               /\ r.hold_durations = <<>> /\ r.long_holds = <<>>
               /\ r.homerow_mod_timings = <<>> /\ r.homerow_mod_failures = <<>>
               /\ r.backspace_chains = <<>>
               /\ \A h \in 0..23 : r.hourly_stats[h].presses = 0
    /\ Gave(out.detect_typo_patterns, <<>>)
    /\ Gave(out.analyze_homerow_mods, [mod_timings |-> <<>>, failures |-> <<>>])
    /\ Gave(out.analyze_backspace_chains,
            [chains |-> <<>>, total_chains |-> 0, immediate_before |-> <<>>,
             sequences_before |-> <<>>, chain_lengths |-> <<>>,
             retype_after |-> <<>>, root_causes |-> <<>>])
    /\ Gave(out.compute_fatigue_analysis, <<>>)
    /\ out.compute_stats # None =>
         /\ out.compute_stats[1].raised = ""
         /\ LET st == out.compute_stats[1].value[1]
            IN /\ st.total_keystrokes = 0 /\ st.total_press_events = 0
               /\ st.error_count = 0 /\ st.session_count = 0
               /\ st.error_rate.num = 0 /\ st.error_rate.den # 0
               /\ st.average_wpm.num = 0 /\ st.average_wpm.den # 0
               /\ st.total_chars = 0 /\ st.total_typing_minutes.num = 0
               /\ st.top_keys = <<>> /\ st.error_contexts = <<>>
               /\ st.slow_digraphs = <<>> /\ st.fast_digraphs = <<>>
               /\ st.long_holds = <<>> /\ st.time_of_day = <<>>
               /\ st.fatigue_analysis = <<>> /\ st.typo_patterns = <<>>
               /\ st.hold_duration_stats = <<>> /\ st.homerow_mods = <<>>
               /\ st.backspace_chains = <<>>

\* Every analyzer has been called with the empty sequence
C11_Witness == events = <<>> /\ AllCalled

\* The sequence with every key that arrives as a list replaced by the
\* last name it lists
Scalar(evs) == [k \in 1..Len(evs) |-> [evs[k] EXCEPT !.key = normalize_key(@)]]

\* An outcome of analyze(), its copy of the input left aside
SameResult(a, b) ==
  /\ a.raised = b.raised
  /\ a.raised = "" =>
       [a.value[1] EXCEPT !.raw_events = <<>>] = [b.value[1] EXCEPT !.raw_events = <<>>]

\* C14: for a sequence in which some keys arrive as lists, analyze() with its
\* typo, modifier and chain analyses, and compute_fatigue_analysis(), complete
\* without failing and give the result they give for the sequence with each
\* such key replaced by the last name of its list.
C14_ListKeysNormalized ==
  LET scalar == Scalar(events)
      scalar_result == analyze(scalar, session_gap)
  IN /\ out.analyze # None =>
          SameResult(out.analyze[1], AnalyzeOutcome(scalar, session_gap))
     /\ out.detect_typo_patterns # None =>
          out.detect_typo_patterns[1] = TypoOutcome(scalar)
     /\ out.analyze_homerow_mods # None =>
          out.analyze_homerow_mods[1] = HomerowOutcome(scalar)
     /\ out.analyze_backspace_chains # None =>
          out.analyze_backspace_chains[1] = ChainsOutcome(scalar)
     /\ out.compute_fatigue_analysis # None =>
          out.compute_fatigue_analysis[1] = FatigueOutcome(scalar_result)

\* C13: load_events() skips every line that is blank, is no JSON or lacks
\* one of timestamp, key and event, and does not abort; every event it
\* returns has the three fields, and analyze() consumes them without failing.
C13_LoaderSkipsBadLines ==
  /\ out.load_events # None =>
       /\ out.load_events[1].raised = ""
       /\ \A k \in 1..Len(out.load_events[1].value[1]) :
            {"timestamp", "key", "event"} \subseteq DOMAIN out.load_events[1].value[1][k]
  /\ out.analyze # None => out.analyze[1].raised = ""

\* Two dicts hold the same items
SameItems(a, b) == {a[n] : n \in 1..Len(a)} = {b[n] : n \in 1..Len(b)}

\* C15: events are analyzed in non-decreasing timestamp order, ties in file
\* order: load_events() returns them stably sorted by timestamp, and
\* analyze() on a list in any order gives the sessions, digraph samples and
\* error contexts it gives for the stably sorted list.
C15_AnalyzedInTimeOrder ==
  /\ out.load_events # None /\ out.load_events[1].raised = "" =>
       out.load_events[1].value[1] =
         SortedByTime(Kept(file.lines, file.start_date, file.end_date))
  /\ LET sorted == AnalyzeOutcome(SortedByTime(events), session_gap)
     IN out.analyze # None /\ out.analyze[1].raised = "" /\ sorted.raised = "" =>
          /\ out.analyze[1].value[1].sessions = sorted.value[1].sessions
          /\ SameItems(out.analyze[1].value[1].digraph_times,
                       sorted.value[1].digraph_times)
          /\ SameItems(out.analyze[1].value[1].error_contexts,
                       sorted.value[1].error_contexts)

\* The characters the letter and shift presses k..to type, a shift press
\* making a capital of the letter after it
RECURSIVE TypedBy(_, _, _, _)
TypedBy(p, k, to, shifted) ==
  IF k > to THEN <<>>
  ELSE IF p[k].key \in ShiftKeys THEN TypedBy(p, k + 1, to, TRUE)
  ELSE IF p[k].key \in LetterKeys
    THEN <<IF shifted THEN CapitalOf(p[k].key) ELSE LetterOf(p[k].key)>>
           \o TypedBy(p, k + 1, to, FALSE)
  ELSE TypedBy(p, k + 1, to, FALSE)

\* The first position from j on that holds a delete press, or Len(p) + 1
NextDelete(p, j) ==
  IF \E m \in j..Len(p) : p[m].key = BACKSPACE
    THEN CHOOSE m \in j..Len(p) :
           /\ p[m].key = BACKSPACE
           /\ \A q \in j..(m - 1) : p[q].key # BACKSPACE
    ELSE Len(p) + 1

\* The maximal runs of delete presses that start before position i
RunsBefore(p, i) ==
  {m \in 1..Min(i - 1, Len(p)) :
     p[m].key = BACKSPACE /\ (m = 1 \/ p[m - 1].key # BACKSPACE)}

\* An iteration of the scan that tallies: it stands at the head i of a
\* maximal run of n delete presses, resumes at the first press j after it,
\* and adds one to the count of one pair, which obeys the bounds
TallyStep ==
  typo'.typo_counts # typo.typo_counts =>
    LET p == typo.press_events
        i == typo.i
        j == typo'.i
        n == j - i
    IN /\ IsDeleteRun(p, i, j)
       /\ CounterTotal(typo'.typo_counts) = CounterTotal(typo.typo_counts) + 1
       /\ \E e \in 1..Len(typo'.typo_counts) :
            LET deleted == typo'.typo_counts[e].key[1]
                corrected == typo'.typo_counts[e].key[2]
                typed == TypedBy(p, j, NextDelete(p, j) - 1, FALSE)
            IN /\ typo'.typo_counts[e].count =
                    CounterGet(typo.typo_counts, typo'.typo_counts[e].key) + 1
               /\ Len(deleted) >= 2 /\ Len(corrected) >= 2
               /\ deleted # corrected
               /\ Len(deleted) <= n
               /\ Len(corrected) <= Len(deleted) + 1
               /\ Len(corrected) <= Len(typed)
               /\ corrected = SubSeq(typed, 1, Len(corrected))

\* C21: every pair tallied for a run of n delete presses has two different
\* strings of length >= 2, len(deleted) <= n, len(corrected) <= len(deleted)
\* + 1, corrected decoded from the presses between the run and the next
\* delete press only; the scan resumes right after the run, so no run is
\* tallied twice.
C21_TalliedPairs ==
  /\ [][TallyStep]_vars
  /\ [][typo'.typo_counts # typo.typo_counts => typo'.i > typo.i]_vars
  /\ [](CounterTotal(typo.typo_counts)
          <= Cardinality(RunsBefore(typo.press_events, typo.i)))

\* A run of two delete presses tallied with three characters typed after it
C21_Witness ==
  /\ pc = "typo_returned"
  /\ \E e \in 1..Len(typo.typo_counts) :
       /\ Len(typo.typo_counts[e].key[1]) = 2
       /\ Len(typo.typo_counts[e].key[2]) = 3
  /\ Cardinality(RunsBefore(typo.press_events, typo.i)) = 1

\* ------------------------------------------------ the windows of a session

\* The presses the windows of a session count, and the delete presses among them
RECURSIVE WindowPresses(_)
WindowPresses(windows) ==
  IF windows = <<>> THEN 0 ELSE windows[1].events + WindowPresses(Tail(windows))
RECURSIVE WindowErrors(_)
WindowErrors(windows) ==
  IF windows = <<>> THEN 0
  ELSE windows[1].error_rate.num + WindowErrors(Tail(windows))

\* "while window_start < session.end" has ended for the session at hand
WindowsDone ==
  /\ pc = "fatigue_windows"
  /\ ~(fat.w.window_start < result.sessions[fat.k].end)

ModResult == out.analyze_homerow_mods[1].value[1]

\* The presses among the five after press i that are neither a mapped key
\* nor the key of press i
OtherKeys(p, i) ==
  {j \in (i + 1)..Min(i + 5, Len(p)) :
     p[j].key \notin HomerowMods /\ p[j].key # p[i].key}
FirstOther(p, i) == CHOOSE j \in OtherKeys(p, i) : \A m \in OtherKeys(p, i) : j <= m

\* Press i is of a mapped key, some press among the next five is of another
\* kind, and no press up to the first such is more than 500 ms later
Sampled(p, i) ==
  /\ p[i].key \in HomerowMods
  /\ OtherKeys(p, i) # {}
  /\ \A m \in (i + 1)..FirstOther(p, i) :
       ToMs(p[m].timestamp - p[i].timestamp) <= 500

\* The sampled presses, in order
SampledPresses(p) ==
  SelectSeq([i \in 1..Len(p) |-> i], LAMBDA i : Sampled(p, i))

\* The name of a sample: the two key names without "KEY_", joined by "->"
SampleName(p, i) ==
  RemoveKEY(Spell(p[i].key)) \o <<"-", ">">>
    \o RemoveKEY(Spell(p[FirstOther(p, i)].key))

\* The samples one name is due, in order
SamplesDue(p, name) ==
  LET due == SelectSeq(SampledPresses(p), LAMBDA i : SampleName(p, i) = name)
  IN [n \in 1..Len(due) |->
        ToMs(p[FirstOther(p, due[n])].timestamp - p[due[n]].timestamp)]

\* C23: analyze_homerow_mods() records for a press of a mapped key at most
\* one sample: the time to the first press among the next five that is
\* neither a mapped key nor the same key, and only when no press up to that
\* one is more than 500 ms later. Every sample is at most 500 ms and there
\* are no more samples than presses of mapped keys.
C23_OneSamplePerModifierPress ==
  out.analyze_homerow_mods # None =>
    LET p == Presses(events)
        t == ModResult.mod_timings
    IN /\ \A e \in 1..Len(t) : t[e].val = SamplesDue(p, t[e].key)
       /\ \A n \in 1..Len(SampledPresses(p)) :
            \E e \in 1..Len(t) : t[e].key = SampleName(p, SampledPresses(p)[n])
       /\ \A e \in 1..Len(t) : \A n \in 1..Len(t[e].val) : t[e].val[n] <= 500
       /\ SampleCount(t)
            <= Cardinality({i \in 1..Len(p) : p[i].key \in HomerowMods})

\* A modifier press followed by five presses of another modifier has no
\* sample although a letter follows, and each of the five has one
C23_Witness ==
  /\ out.analyze_homerow_mods # None
  /\ Len(events) = 8
  /\ events[1].key = "KEY_D"
  /\ events[7].key = "KEY_I"
  /\ ~Sampled(Presses(events), 1)
  /\ SampleCount(ModResult.mod_timings) = 5

\* ------------------------------------------------- the failures of a shift

\* A key that types a letter: "KEY_" and one letter
IsLetterKey(key) ==
  LET n == Spell(key) IN StartsWithKEY(n) /\ Len(n) = 5 /\ IsAlpha(n[5])

\* Among the up to three presses after press j a delete press comes before
\* any press of a letter key
DeleteBeforeLetter(p, j) ==
  \E k \in (j + 1)..Min(j + 3, Len(p)) :
    /\ p[k].key = BACKSPACE
    /\ \A m \in (j + 1)..(k - 1) : ~IsLetterKey(p[m].key)

\* The sampled press i is one of a shift modifier, its sample is of one of
\* the keys it is meant to shift, and a delete press follows
FailureDue(p, i) ==
  /\ ModName(p[i].key) \in {"lshift", "rshift"}
  /\ p[FirstOther(p, i)].key \in TargetKeys(p[i].key)
  /\ DeleteBeforeLetter(p, FirstOther(p, i))

FailuresDue(p) ==
  LET due == SelectSeq(SampledPresses(p), LAMBDA i : FailureDue(p, i))
  IN [n \in 1..Len(due) |->
        [mod_key |-> RemoveKEY(Spell(p[due[n]].key)),
         target_key |-> RemoveKEY(Spell(p[FirstOther(p, due[n])].key)),
         timing_ms |-> ToMs(p[FirstOther(p, due[n])].timestamp - p[due[n]].timestamp),
         was_corrected |-> TRUE]]

\* C24: analyze_homerow_mods() records the failure (modifier, target, timing,
\* corrected) exactly for the samples of a shift modifier whose key is one
\* the modifier is meant to shift and after which, within three presses, a
\* delete press comes before any letter key; a key between that is no
\* letter does not cancel the failure.
C24_FailureExactlyWhenCorrected ==
  out.analyze_homerow_mods # None =>
    ModResult.failures = FailuresDue(Presses(events))

\* ------------------------------------------------- the causes of the chains

\* What analyze_backspace_chains(events) returned
ChainResult == out.analyze_backspace_chains[1].value[1]

\* The chains with n keys or more before them whose last keys before satisfy
\* Test(keys before the chain)
ChainsWhere(chains, Test(_)) == {c \in 1..Len(chains) : Test(chains[c].before)}

\* A key whose name without "KEY_" is one character
IsSingleCharacterKey(key) == Len(RemoveKEY(Spell(key))) = 1

\* The two keys before the chain are a single-character key and the space bar
AfterWord(before) ==
  /\ Len(before) >= 2
  /\ IsSingleCharacterKey(before[Len(before) - 1])
  /\ before[Len(before)] = "KEY_SPACE"

\* C25: every chain of analyze_backspace_chains() whose two keys before are a
\* single-character key and the space bar counts as a word_deletion.
C25_WordDeletion ==
  out.analyze_backspace_chains # None =>
    CounterGet(ChainResult.root_causes, "word_deletion")
      >= Cardinality(ChainsWhere(ChainResult.chains, AfterWord))

\* The key before the chain is the caps-lock or the escape key
AfterCapsLockOrEscape(before) ==
  /\ Len(before) >= 1
  /\ before[Len(before)] \in {"KEY_CAPSLOCK", "KEY_ESC"}

\* C26: every chain of analyze_backspace_chains() whose key before is the
\* caps-lock or the escape key counts as a capslock_escape, whatever the
\* key before that one and also when there is none.
C26_CapsLockEscape ==
  out.analyze_backspace_chains # None =>
    CounterGet(ChainResult.root_causes, "capslock_escape")
      >= Cardinality(ChainsWhere(ChainResult.chains, AfterCapsLockOrEscape))

\* ------------------------------------------------------ the chains reported

\* The positions at which a run of two or more delete presses begins, in
\* order, and the position after such a run
IsRunHead(keys, i) ==
  /\ keys[i] = BACKSPACE
  /\ i = 1 \/ keys[i - 1] # BACKSPACE
  /\ i < Len(keys) /\ keys[i + 1] = BACKSPACE
RunHeads(keys) == SelectSeq([i \in 1..Len(keys) |-> i], LAMBDA i : IsRunHead(keys, i))
RunStop(keys, i) ==
  CHOOSE j \in (i + 1)..(Len(keys) + 1) :
    /\ \A m \in i..(j - 1) : keys[m] = BACKSPACE
    /\ j <= Len(keys) => keys[j] # BACKSPACE

RECURSIVE ChainLengths(_)
ChainLengths(chains) ==
  IF chains = <<>> THEN 0 ELSE chains[1].bs_count + ChainLengths(Tail(chains))

\* error_count of analyze(events) bounds the lengths of the chains
WithinErrorCount(chains) ==
  (out.analyze # None /\ out.analyze[1].raised = "") =>
    ChainLengths(chains) <= out.analyze[1].value[1].error_count

\* C27: the chains of analyze_backspace_chains() are the maximal runs of two
\* or more delete presses, in order, each with the up to 10 keys before it
\* and the up to 5 keys after it: no delete key stands right before or
\* right after a chain and a single delete press is no chain. The lengths
\* counted in chain_lengths sum to total_chains, the root causes counted are
\* no more than the chains, and the lengths of all chains sum to at most
\* the error_count of analyze().
C27_ChainsAreMaximalRuns ==
  out.analyze_backspace_chains # None =>
    LET keys == PressKeys(events)
        heads == RunHeads(keys)
        r == ChainResult
    IN /\ Len(r.chains) = Len(heads)
       /\ \A c \in 1..Len(r.chains) :
            LET i == heads[c]
                j == RunStop(keys, i)
                ctx == r.chains[c]
            IN /\ ctx.bs_count = j - i
               /\ ctx.bs_count >= 2
               /\ ctx.before = SubSeq(keys, Max(1, i - 10), i - 1)
               /\ ctx.after = SubSeq(keys, j, Min(j + 4, Len(keys)))
               /\ Len(ctx.before) <= 10 /\ Len(ctx.after) <= 5
               /\ ctx.before # <<>> => ctx.before[Len(ctx.before)] # BACKSPACE
               /\ ctx.after # <<>> => ctx.after[1] # BACKSPACE
       /\ r.total_chains = Len(r.chains)
       /\ CounterTotal(r.chain_lengths) = r.total_chains
       /\ CounterTotal(r.root_causes) <= r.total_chains
       /\ WithinErrorCount(r.chains)

\* A chain with more than 10 keys before it and more than 5 after it, in an
\* input analyze() has counted the delete presses of
C27_Witness ==
  /\ out.analyze_backspace_chains # None
  /\ out.analyze # None /\ out.analyze[1].raised = ""
  /\ Len(events) = 12 + 3 + 7
  /\ Len(ChainResult.chains) = 1
  /\ ChainResult.chains[1].bs_count = 3
  /\ Len(ChainResult.chains[1].before) = 10
  /\ Len(ChainResult.chains[1].after) = 5
  /\ out.analyze[1].value[1].error_count = 3

\* ------------------------------------------------------------- termination

\* C28: for every window_minutes compute_fatigue_analysis() comes to its
\* return: the loop over the windows of a session reaches the end of the
\* session after finitely many windows.
C28_WindowLoopTerminates == <>(pc = "fatigue_returned")

\* ------------------------------------------------------ the tap-time advice

\* What compute_homerow_mod_stats() returned
ModStats == out.compute_homerow_mod_stats[1].value[1]

\* C29: the tap-time a lower_tap_time recommendation of
\* compute_homerow_mod_stats() names is lower than tap_time_ms, for every
\* positive tap_time_ms.
C29_SuggestedTapTimeLower ==
  (out.compute_homerow_mod_stats # None /\ ModStats.recommendations # None) =>
    \A n \in 1..Len(ModStats.recommendations[1]) :
      ModStats.recommendations[1][n].type = "lower_tap_time" =>
        ModStats.recommendations[1][n].suggested[1] < ModStats.tap_time_setting

\* ------------------------------------------------- mapped keys as targets

\* The keys a shift modifier is meant to shift
ShiftTargets ==
  UNION {TargetKeys(m) : m \in {k \in HomerowMods : ModName(k) \in {"lshift", "rshift"}}}

\* The names of the mapped keys among the presses, and of those of them that
\* a shift modifier is meant to shift
MappedNames(p) ==
  {RemoveKEY(Spell(p[i].key)) : i \in {n \in 1..Len(p) : p[n].key \in HomerowMods}}
MappedTargetNames(p) ==
  {RemoveKEY(Spell(p[i].key)) :
     i \in {n \in 1..Len(p) : p[n].key \in HomerowMods \cap ShiftTargets}}

\* The names of the samples with one of the names as target
SamplesOnto(p, names) ==
  {RemoveKEY(Spell(p[i].key)) \o <<"-", ">">> \o name :
     i \in 1..Len(p), name \in names}

\* No sample has a mapped key as its target
NoSampleOntoMapped ==
  \A e \in 1..Len(ModResult.mod_timings) :
    ModResult.mod_timings[e].key
      \notin SamplesOnto(Presses(events), MappedNames(Presses(events)))

\* C30: no sample and no failure of analyze_homerow_mods() has a mapped key
\* as its target, mapped keys being skipped by the scan: a mapped key that a
\* shift modifier is meant to shift (KEY_K for KEY_D, KEY_D and KEY_S for
\* KEY_K) is the target of no failure tuple.
C30_MappedKeyNeverTarget ==
  out.analyze_homerow_mods # None =>
    /\ NoSampleOntoMapped
    /\ \A f \in 1..Len(ModResult.failures) :
         /\ ModResult.failures[f].target_key \notin MappedNames(Presses(events))
         /\ ModResult.failures[f].target_key
              \notin MappedTargetNames(Presses(events))

\* KEY_D, then KEY_K, which KEY_D is meant to shift, then a letter and a
\* delete press: the failure is one of KEY_D on the letter
C30_Witness ==
  /\ out.analyze_homerow_mods # None
  /\ Len(events) = 4
  /\ events[1].key = "KEY_D" /\ events[2].key = "KEY_K"
  /\ \E f \in 1..Len(ModResult.failures) :
       /\ ModResult.failures[f].mod_key = <<"D">>
       /\ ModResult.failures[f].target_key = <<"I">>

====
